---- MODULE Spec2Model ----
(***************************************************************************)
(* The recipe-direction-to-step pipeline of recipebot (recipebot/parser).  *)
(*                                                                         *)
(* A text is a sequence of tokens.  A token is a word, a number or a       *)
(* punctuation mark; a punctuation mark (Punct) is written directly after  *)
(* the token before it, every other token is preceded by one blank.  The   *)
(* regular expressions and substring tests of the source are translated to *)
(* this token level: "\s+" between two tokens holds exactly when the       *)
(* second one is not a punctuation mark.                                   *)
(***************************************************************************)
EXTENDS Integers, Sequences, FiniteSets, TLC

VARIABLES
    directions,             \* parse_steps_from_directions: argument
    split_by_atomic_steps,  \* parse_steps_from_directions: argument
    use_spacy,              \* strategy flag of the call
    hashSeed,               \* the process's string-hash seed (fixes set iteration order)
    depOracle,              \* what the loaded language model's dependency parser answers
    model_installed,        \* spacy.load("en_core_web_md") finds the language model
    _nlp,                   \* spacy_utils._nlp: "None" or the loaded language model
    all_ingredients,        \* parse_steps_from_directions: argument (the names)
    dirIdx,                 \* position of "for direction in directions"
    atomic_steps,           \* the atomic steps of the current direction not yet processed
    steps,                  \* parse_steps_from_directions: steps
    step_number,            \* parse_steps_from_directions: step_number
    context,                \* parse_steps_from_directions: context
    pc,                     \* "idle" | "loop" | "done" | "raised"
    text,                   \* argument of a single extractor / segmenter / classifier call
    call,                   \* "idle" or the name of the function that was applied to text
    result,                 \* what that call returned (or that it raised)
    frames,                 \* concurrent parse invocations: each one's locals and position
    heap,                   \* the dict objects the invocations' context names refer to
    spacy_loads,            \* how many times spacy.load has been executed
    tracker,                \* rasa: the conversation's slots
    dispatcher,             \* rasa: what the last action showed
    agent                   \* hybrid: HybridAgent's current_recipe and current_step

vars == <<directions, split_by_atomic_steps, use_spacy, hashSeed, depOracle,
          model_installed, _nlp, all_ingredients, dirIdx, atomic_steps,
          steps, step_number, context, pc, text, call, result,
          frames, heap, spacy_loads, tracker, dispatcher, agent>>

\* the variables of the concurrent invocations, of the rasa actions and of the hybrid agent
sessionVars == <<frames, heap, spacy_loads, tracker, dispatcher, agent>>

\* no concurrent invocation, no conversation, no agent
SessionIdle ==
    /\ frames = <<>>
    /\ heap = <<>>
    /\ spacy_loads = 0
    /\ tracker = <<>>
    /\ dispatcher = <<>>
    /\ agent = <<>>

parseVars == <<directions, split_by_atomic_steps, hashSeed, all_ingredients, dirIdx,
               atomic_steps,
               steps, step_number, context, pc>>

(***************************************************************************)
(* Bounds of the model.                                                    *)
(***************************************************************************)
MaxSegLen == 5     \* longest direction (in tokens) given to the segmenter alone
MaxClsLen == 3     \* longest step text (in tokens) given to the classifier alone
MaxDirs == 2       \* most directions in one parse call
MaxExtLen == 2     \* longest text (in tokens) given to one extractor alone, examples apart

(***************************************************************************)
(* Characters: str.lower(), str[0].upper(), str.strip().                   *)
(***************************************************************************)
Punct == {".", ",", ";", ":"}

\* <<capitalised spelling, lower-case spelling>> of the words of the vocabulary
CapitalizedWords ==
    { <<"Preheat", "preheat">>, <<"Bake", "bake">>, <<"Roast", "roast">>,
      <<"Cook", "cook">>, <<"Stir", "stir">>, <<"Heat", "heat">>, <<"Let", "let">>,
      <<"Do", "do">>, <<"The", "the">>, <<"You", "you">>, <<"And", "and">>,
      <<"Then", "then">>, <<"While", "while">>, <<"Meanwhile", "meanwhile">>,
      <<"Fry", "fry">>, <<"Serve", "serve">>, <<"Watch", "watch">>, <<"It", "it">>,
      <<"Set", "set">>, <<"Continue", "continue">>, <<"Pat", "pat">> }

\* <<spelling, str.lower() of it>> of the unit letters
UnitLetters == { <<"°F", "°f">>, <<"°C", "°c">>, <<"F", "f">>, <<"C", "c">> }

\* str.lower() of one token
LowerTok(t) ==
    IF \E p \in CapitalizedWords \cup UnitLetters : p[1] = t
    THEN (CHOOSE p \in CapitalizedWords \cup UnitLetters : p[1] = t)[2]
    ELSE t

\* str.lower() of a text
Lower(s) == <<>> \o [i \in 1..Len(s) |-> LowerTok(s[i])]

\* step[0].upper() + step[1:] of a non-empty text
UpperFirst(s) ==
    IF \E p \in CapitalizedWords : p[2] = s[1]
    THEN <<(CHOOSE p \in CapitalizedWords : p[2] = s[1])[1]>> \o Tail(s)
    ELSE s

\* str[0].isupper()
IsUpperFirst(s) == (\E p \in CapitalizedWords : p[1] = s[1]) \/ s[1] \in {"F", "C"}

Digits == {"2", "3", "5", "30", "50", "350", "400", "600", "700"}

\* the token starts with a letter ([A-Z] under re.IGNORECASE)
StartsWithLetter(t) == t \notin Punct /\ t \notin Digits /\ t \notin {"°F", "°C", "°f", "°c", "-"}

\* pattern occurs in s as a run of consecutive tokens starting at i
MatchAt(s, i, pattern) ==
    /\ i >= 1
    /\ i + Len(pattern) - 1 <= Len(s)
    /\ \A k \in 1..Len(pattern) : s[i + k - 1] = pattern[k]

\* <<word, token>>: word is a proper prefix / suffix of the (lower-case) token
ProperPrefix == { <<"watch", "watching">>, <<"chill", "chilled">>, <<"not", "nothing">>,
                  <<"fry", "frying">>, <<"stir", "stirring">>, <<"bak", "baking">>,
                  <<"bake", "baked">>, <<"cool", "cools">>, <<"minute", "minutes">>,
                  <<"c", "cups">>, <<"f", "for">>, <<"pan", "pans">> }
ProperSuffix == { <<"heat", "preheat">>, <<"be", "maybe">> }

HasPrefix(tok, w) == tok = w \/ <<w, tok>> \in ProperPrefix
HasSuffix(tok, w) == tok = w \/ <<w, tok>> \in ProperSuffix

\* the characters of pattern occur in s starting inside token i ("pattern in s" at i)
InTextAt(s, i, pattern) ==
    LET n == Len(pattern)
    IN /\ n >= 1
       /\ i + n - 1 <= Len(s)
       /\ IF n = 1
          THEN HasPrefix(s[i], pattern[1]) \/ HasSuffix(s[i], pattern[1])
          ELSE /\ HasSuffix(s[i], pattern[1])
               /\ HasPrefix(s[i + n - 1], pattern[n])
               /\ \A k \in 2..(n - 1) : s[i + k - 1] = pattern[k]

\* Python's "pattern in s" for a pattern given as a token sequence
InText(s, pattern) == \E i \in 1..Len(s) : InTextAt(s, i, pattern)

\* "any pattern of patterns in s"
AnyInText(s, patterns) == \E p \in patterns : InText(s, p)

(***************************************************************************)
(* A returned value or a raised exception.                                 *)
(***************************************************************************)
Return(v) == [raised |-> FALSE, exc |-> "", value |-> v]
Raise(e) == [raised |-> TRUE, exc |-> e, value |-> <<>>]

(***************************************************************************)
(* recipebot/parser/spacy_utils.py: get_nlp, the lazy loader of the        *)
(* language model.  loaded is the module-level _nlp before the call.       *)
(***************************************************************************)
\* get_nlp() with the OSError swallowed: it returns None when the model is missing
get_nlp_swallowing(loaded, installed) ==
    IF loaded # "None" THEN Return(loaded)
    ELSE IF installed THEN Return("en_core_web_md")
    ELSE Return("None")

\* get_nlp(): the model it returns, or the RuntimeError it raises
get_nlp(loaded, installed) ==
    IF loaded # "None" THEN Return(loaded)
    ELSE IF installed THEN Return("en_core_web_md")      \* _nlp = spacy.load(...)
    ELSE Raise("RuntimeError")                           \* except OSError: raise RuntimeError

\* _nlp after a call of get_nlp that gave g: a failed load stores nothing
NlpAfter(loaded, g) == IF g.raised THEN loaded ELSE g.value

\* the get_nlp() call a function makes first under the spaCy strategy (none otherwise)
LoadFor(spacy, loaded, installed) == IF spacy THEN get_nlp(loaded, installed) ELSE Return(loaded)

(***************************************************************************)
(* Dictionaries: {} and d[k] = v.                                          *)
(***************************************************************************)
EmptyDict == [k \in {} |-> ""]
DictSet(d, k, v) == [x \in DOMAIN d \cup {k} |-> IF x = k THEN v ELSE d[x]]

(***************************************************************************)
(* recipebot/parser/step.py: SENTENCE_SPLITTERS and re.split.              *)
(***************************************************************************)
\* Number of tokens the k-th splitter consumes when it matches s at token i, else 0.
SENTENCE_SPLITTERS(k, s, i) ==
    LET low == Lower(s)
        blankAfter(j) == j + 1 <= Len(s) /\ s[j + 1] \notin Punct
    IN CASE k = 1 ->   \* r"\.\s+(?=[A-Z])", re.IGNORECASE
              IF s[i] = "." /\ blankAfter(i) /\ StartsWithLetter(s[i + 1]) THEN 1 ELSE 0
         [] k = 2 ->   \* r";\s*"
              IF s[i] = ";" THEN 1 ELSE 0
         [] k = 3 ->   \* r",\s+then\s+"
              IF MatchAt(low, i, <<",", "then">>) /\ blankAfter(i + 1) THEN 2 ELSE 0
         [] k = 4 ->   \* r",\s+and then\s+"
              IF MatchAt(low, i, <<",", "and", "then">>) /\ blankAfter(i + 2) THEN 3 ELSE 0
         [] k = 5 ->   \* r"\s+meanwhile\s+"
              IF i > 1 /\ low[i] = "meanwhile" /\ blankAfter(i) THEN 1 ELSE 0
         [] k = 6 ->   \* r"\s+while\s+"
              IF i > 1 /\ low[i] = "while" /\ blankAfter(i) THEN 1 ELSE 0
         [] OTHER -> 0

NumSplitters == 6

RECURSIVE ReSplitFrom(_, _, _, _)
\* re.split(splitter k, s): the pieces between the leftmost non-overlapping matches
ReSplitFrom(k, s, i, cur) ==
    IF i > Len(s) THEN <<cur>>
    ELSE LET n == SENTENCE_SPLITTERS(k, s, i)
         IN IF n > 0 THEN <<cur>> \o ReSplitFrom(k, s, i + n, <<>>)
            ELSE ReSplitFrom(k, s, i + 1, Append(cur, s[i]))

ReSplit(k, s) == ReSplitFrom(k, s, 1, <<>>)

\* [p.strip() for p in parts if p.strip()]
NonEmpty(parts) == SelectSeq(parts, LAMBDA p : p # <<>>)

RECURSIVE FlatMap(_, _)
\* new_steps.extend(...) over every step of steps, for one splitter
FlatMap(k, ss) ==
    IF ss = <<>> THEN <<>>
    ELSE NonEmpty(ReSplit(k, Head(ss))) \o FlatMap(k, Tail(ss))

RECURSIVE ApplySplitters(_, _)
\* for splitter in SENTENCE_SPLITTERS: steps = new_steps  (k: next splitter to apply)
ApplySplitters(k, ss) ==
    IF k > NumSplitters THEN ss ELSE ApplySplitters(k + 1, FlatMap(k, ss))

LeadingConjunctions == {"then", "and", "meanwhile", "while"}

\* re.sub(r"^(then|and|meanwhile|while)\s+", "", step, flags=re.IGNORECASE)
StripLeadingConjunction(s) ==
    IF Len(s) >= 2 /\ LowerTok(s[1]) \in LeadingConjunctions /\ s[2] \notin Punct
    THEN Tail(s) ELSE s

RECURSIVE CleanSteps(_)
\* the "Clean up steps" loop of split_into_atomic_steps
CleanSteps(ss) ==
    IF ss = <<>> THEN <<>>
    ELSE LET step == StripLeadingConjunction(Head(ss))
         IN (IF step # <<>> THEN <<UpperFirst(step)>> ELSE <<>>) \o CleanSteps(Tail(ss))

\* split_into_atomic_steps, the regex strategy (use_spacy = False)
split_into_atomic_steps_legacy(direction) ==
    LET cleaned_steps == CleanSteps(ApplySplitters(1, <<direction>>))
    IN Return(IF cleaned_steps # <<>> THEN cleaned_steps ELSE <<direction>>)

(***************************************************************************)
(* recipebot/parser/spacy_utils.py: split_into_sentences_with_spacy.       *)
(***************************************************************************)
RECURSIVE SentsFrom(_, _, _)
\* doc.sents with sent.text.strip(): the sentence-boundary detector closes a
\* sentence after each full stop
SentsFrom(s, i, cur) ==
    IF i > Len(s) THEN (IF cur = <<>> THEN <<>> ELSE <<cur>>)
    ELSE IF s[i] = "." THEN <<Append(cur, s[i])>> \o SentsFrom(s, i + 1, <<>>)
    ELSE SentsFrom(s, i + 1, Append(cur, s[i]))

Sents(s) == SentsFrom(s, 1, <<>>)

\* One element of re.split's result: a piece of text, or the capture group
\* (and\s+)?, which is None when the separator held no "and".
TextPart(toks) == [none |-> FALSE, toks |-> toks]
NonePart == [none |-> TRUE, toks |-> <<>>]

RECURSIVE ThenSplitFrom(_, _, _)
\* re.split(r",\s+(and\s+)?then\s+", sent_text, flags=re.IGNORECASE)
ThenSplitFrom(s, i, cur) ==
    LET low == Lower(s)
        blankAfter(j) == j + 1 <= Len(s) /\ s[j + 1] \notin Punct
    IN IF i > Len(s) THEN <<TextPart(cur)>>
       ELSE IF MatchAt(low, i, <<",", "and", "then">>) /\ blankAfter(i + 2)
            THEN <<TextPart(cur), TextPart(<<s[i + 1]>>)>> \o ThenSplitFrom(s, i + 3, <<>>)
       ELSE IF MatchAt(low, i, <<",", "then">>) /\ blankAfter(i + 1)
            THEN <<TextPart(cur), NonePart>> \o ThenSplitFrom(s, i + 2, <<>>)
       ELSE ThenSplitFrom(s, i + 1, Append(cur, s[i]))

RECURSIVE ThenParts(_, _, _)
\* "for i, part in enumerate(parts)" of split_into_sentences_with_spacy;
\* i counts from 1 here, acc is the list of sentences so far
ThenParts(parts, i, acc) ==
    IF i > Len(parts) THEN Return(acc)
    ELSE LET p == parts[i]
         IN IF i > 1 /\ p.none THEN Raise("TypeError")            \* None[0]
            ELSE IF i > 1 /\ p.toks = <<>> THEN Raise("IndexError")  \* ""[0]
            ELSE LET part == IF i > 1 /\ ~IsUpperFirst(p.toks)
                             THEN UpperFirst(p.toks) ELSE p.toks
                     keep == part # <<>>
                             /\ Lower(part) \notin {<<"then">>, <<"and", "then">>}
                 IN ThenParts(parts, i + 1, IF keep THEN Append(acc, part) ELSE acc)

RECURSIVE SentLoop(_, _)
\* "for sent in doc.sents" of split_into_sentences_with_spacy
SentLoop(sents, acc) ==
    IF sents = <<>> THEN Return(acc)
    ELSE LET sent_text == Head(sents)
             low == Lower(sent_text)
         IN IF InText(low, <<",", "then">>) \/ InText(low, <<",", "and", "then">>)
            THEN LET r == ThenParts(ThenSplitFrom(sent_text, 1, <<>>), 1, acc)
                 IN IF r.raised THEN r ELSE SentLoop(Tail(sents), r.value)
            ELSE SentLoop(Tail(sents), Append(acc, sent_text))

split_into_sentences_with_spacy(s) == SentLoop(Sents(s), <<>>)

\* split_into_atomic_steps(direction, use_spacy)
split_into_atomic_steps(direction, spacy) ==
    IF spacy
    THEN LET sentences == split_into_sentences_with_spacy(direction)
         IN IF sentences.raised THEN sentences
            ELSE LET cleaned_steps == CleanSteps(sentences.value)
                 IN Return(IF cleaned_steps # <<>> THEN cleaned_steps ELSE <<direction>>)
    ELSE split_into_atomic_steps_legacy(direction)

(***************************************************************************)
(* recipebot/parser/spacy_utils.py: the token matchers.  A Matcher yields  *)
(* its matches in the order in which they complete while it scans the      *)
(* document: by end position, then by start position, then in the order    *)
(* the patterns were added.                                                *)
(***************************************************************************)
\* the spelled-out numbers of the vocabulary
NumberWords == {"two"}

\* token.like_num: digits and number words
LikeNum(t) == t \in Digits \cup NumberWords

\* float(token.text) reads the token (it raises ValueError otherwise)
FloatReads(t) == t \in Digits

\* int(float(token.text)) of a number token
NumVal(t) ==
    CASE t = "2" -> 2 [] t = "3" -> 3 [] t = "5" -> 5 [] t = "30" -> 30
      [] t = "350" -> 350 [] t = "400" -> 400 [] t = "700" -> 700
      [] t = "50" -> 50 [] t = "600" -> 600 [] OTHER -> 0

Match(type, rank, start, end) == [type |-> type, rank |-> rank, start |-> start, end |-> end]

\* m is returned before m2: it completes first, or started first, or was added first
MatchBefore(m, m2) ==
    \/ m.end < m2.end
    \/ m.end = m2.end /\ m.start < m2.start
    \/ m.end = m2.end /\ m.start = m2.start /\ m.rank <= m2.rank

RECURSIVE MatchOrder(_)
\* the matches in the order the Matcher returns them (spans are [start, end])
MatchOrder(ms) ==
    IF ms = {} THEN <<>>
    ELSE LET m == CHOOSE x \in ms : \A y \in ms : MatchBefore(x, y)
         IN <<m>> \o MatchOrder(ms \ {m})

HeatLevels == {"low", "medium", "high", "medium-low", "medium-high"}

\* create_temperature_matcher: every match of TEMP_NUMERIC, TEMP_QUALITATIVE, TEMP_PREHEAT
create_temperature_matcher(s) ==
    LET n == Len(s)
        low == Lower(s)
        isDegree(j) == j <= n /\ low[j] \in {"degree", "degrees", "°"}
        isFC(j) == j <= n /\ s[j] \in {"F", "C"}                  \* TEXT REGEX ^[FC]$
        isDegFC(j) == j <= n /\ s[j] \in {"°F", "°C"}             \* TEXT REGEX ^°[FC]$
        isNum(j) == j <= n /\ LikeNum(s[j])
    IN { Match("TEMP_NUMERIC", 1, i, i + 1) : i \in {j \in 1..n : isNum(j) /\ isFC(j + 1)} }
       \cup
       { Match("TEMP_NUMERIC", 1, i, i + 2) :
            i \in {j \in 1..n : isNum(j) /\ isDegree(j + 1) /\ isFC(j + 2)} }
       \cup
       { Match("TEMP_NUMERIC", 1, i, i + 1) : i \in {j \in 1..n : isNum(j) /\ isDegFC(j + 1)} }
       \cup
       { Match("TEMP_QUALITATIVE", 2, i, i + 1) :
            i \in {j \in 1..n : low[j] \in HeatLevels /\ j + 1 <= n /\ low[j + 1] = "heat"} }
       \cup
       UNION { LET k == IF i + 1 <= n /\ low[i + 1] \in {"to", "at"} THEN {i + 1, i + 2}
                        ELSE {i + 1}       \* where the number may stand
               IN UNION { { Match("TEMP_PREHEAT", 3, i, e) :
                              e \in {j} \cup (IF isDegree(j + 1) THEN {j + 1} ELSE {})
                                        \cup (IF isFC(j + 1) THEN {j + 1} ELSE {})
                                        \cup (IF isDegree(j + 1) /\ isFC(j + 2)
                                              THEN {j + 2} ELSE {}) }
                          : j \in {x \in k : isNum(x)} }
               : i \in {j \in 1..n : low[j] \in {"preheat", "preheating"}} }

\* f"{temp}°{unit}"
OvenText(temp, unit) == <<temp, "°", unit>>

\* extract_temperature_with_spacy(doc, temp_matcher)
extract_temperature_with_spacy(s) ==
    LET matches == MatchOrder(create_temperature_matcher(s))
    IN IF matches = <<>> THEN EmptyDict
       ELSE LET m == matches[1]       \* every branch of the loop returns at once
                span == m.start .. m.end
            IN IF m.type \in {"TEMP_NUMERIC", "TEMP_PREHEAT"}
               THEN LET nums == {j \in span : LikeNum(s[j])}
                        temp == s[CHOOSE j \in nums : \A x \in nums : x <= j]
                        units == {j \in span : s[j] \in {"F", "C", "°F", "°C"}}
                        unit == IF units = {} THEN "F"
                                ELSE LET u == s[CHOOSE j \in units : \A x \in units : x <= j]
                                     IN IF u \in {"F", "°F"} THEN "F" ELSE "C"
                    IN DictSet(EmptyDict, "oven", OvenText(temp, unit))
               ELSE DictSet(EmptyDict, "heat", SubSeq(s, m.start, m.end))

(***************************************************************************)
(* recipebot/parser/step.py: TEMP_PATTERNS and extract_temperature_from_text*)
(***************************************************************************)
\* the lower-case token begins with f or c ([FC] under re.IGNORECASE)
FCInitial(t) ==
    IF t \in {"f", "for", "flour", "fry", "frying", "freeze", "°f"} THEN "f"
    ELSE IF t \in {"c", "cups", "cool", "cools", "cook", "can", "chill", "chilled",
                   "careful", "°c"}
    THEN "c" ELSE ""

\* TEMP_PATTERNS[k] against the lower-case text at token i: <<matched, temp, unit>>
TEMP_PATTERNS(k, low, i) ==
    LET n == Len(low)
        num == low[i] \in Digits
    IN CASE k = 0 ->   \* r"(\d+)\s*(?:degrees?|°)\s*([FC])"
              IF num /\ i + 1 <= n /\ low[i + 1] \in {"°f", "°c"}
              THEN <<TRUE, low[i], FCInitial(low[i + 1])>>
              ELSE IF num /\ i + 2 <= n /\ low[i + 1] \in {"degree", "degrees", "°"}
                      /\ FCInitial(low[i + 2]) # "" /\ low[i + 2] \notin {"°f", "°c"}
              THEN <<TRUE, low[i], FCInitial(low[i + 2])>>
              ELSE <<FALSE, "", "">>
         [] k = 1 ->   \* r"(\d+)\s*([FC])"
              IF num /\ i + 1 <= n /\ FCInitial(low[i + 1]) # ""
                 /\ low[i + 1] \notin {"°f", "°c"}
              THEN <<TRUE, low[i], FCInitial(low[i + 1])>>
              ELSE <<FALSE, "", "">>
         [] k = 2 ->   \* r"(low|medium|high|medium-low|medium-high)\s+heat": one group
              IF low[i] \in HeatLevels /\ i + 1 <= n /\ HasPrefix(low[i + 1], "heat")
              THEN <<TRUE, low[i], "">>
              ELSE <<FALSE, "", "">>
         [] OTHER -> <<FALSE, "", "">>

\* re.search(TEMP_PATTERNS[k], text.lower()): the leftmost match, or <<FALSE, ..>>
TempSearch(k, low) ==
    LET hits == {i \in 1..Len(low) : TEMP_PATTERNS(k, low, i)[1]}
    IN IF hits = {} THEN <<FALSE, "", "">>
       ELSE TEMP_PATTERNS(k, low, CHOOSE i \in hits : \A j \in hits : i <= j)

UpperUnit(u) == IF u = "f" THEN "F" ELSE "C"

RECURSIVE TempLoop(_, _)
\* "for pattern in TEMP_PATTERNS[:3]" and the preheat search after it
TempLoop(k, low) ==
    IF k > 2
    THEN \* re.search(r"preheat.*?(\d+)\s*°?\s*([FC])?", text.lower())
         LET pre == {i \in 1..Len(low) : HasPrefix(low[i], "preheat")}
             nums == {j \in 1..Len(low) : low[j] \in Digits
                                          /\ \E i \in pre : i < j}
         IN IF nums = {} THEN EmptyDict
            ELSE LET j == CHOOSE x \in nums : \A y \in nums : x <= y
                 IN DictSet(EmptyDict, "oven", OvenText(low[j], "F"))
    ELSE LET m == TempSearch(k, low)
         IN IF m[1]
            THEN IF k < 2      \* len(match.groups()) == 2
                 THEN DictSet(EmptyDict, "oven", OvenText(m[2], UpperUnit(m[3])))
                 ELSE EmptyDict   \* the heat pattern has one group: nothing is stored
            ELSE TempLoop(k + 1, low)

\* extract_temperature_from_text(text, use_spacy)
extract_temperature_from_text(s, spacy) ==
    LET spacy_temp_info == IF spacy THEN extract_temperature_with_spacy(s) ELSE EmptyDict
    IN IF spacy /\ DOMAIN spacy_temp_info # {}
       THEN spacy_temp_info
       ELSE TempLoop(0, Lower(s))

(***************************************************************************)
(* Time: create_time_matcher / extract_time_with_spacy (spacy_utils.py)    *)
(* and TIME_PATTERNS / extract_time_from_text (step.py).                   *)
(***************************************************************************)
HourWords == {"hour", "hours", "hr", "hrs"}
MinuteWords == {"minute", "minutes", "min", "mins"}
SecondWords == {"second", "seconds", "sec", "secs"}
LongUnitWords == HourWords \cup MinuteWords \cup SecondWords
\* TIME_DURATION also accepts the one-letter units
DurationUnitWords == LongUnitWords \cup {"h", "m", "s"}

\* token.pos_ in [ADJ, VERB, NOUN], as the tagger labels the words of the vocabulary
ContentWords == {"golden", "brown", "tender", "bread", "sauce", "bake", "stir", "cool",
                 "cools", "thicken", "batter", "mixture", "oven", "heat", "pan"}

RECURSIVE UntilEnds(_, _)
\* the ends of the matches of [until, {POS in ADJ/VERB/NOUN, OP "+"}] that start at i
UntilEnds(low, j) ==
    IF j <= Len(low) /\ low[j] \in ContentWords THEN {j} \cup UntilEnds(low, j + 1) ELSE {}

\* create_time_matcher: every match of TIME_DURATION, TIME_RANGE, TIME_FOR, TIME_UNTIL
create_time_matcher(s) ==
    LET n == Len(s)
        low == Lower(s)
        isNum(j) == j <= n /\ LikeNum(s[j])
    IN { Match("TIME_DURATION", 1, i, i + 1) :
            i \in {j \in 1..n : isNum(j) /\ j + 1 <= n /\ low[j + 1] \in DurationUnitWords} }
       \cup
       { Match("TIME_RANGE", 2, i, i + 3) :
            i \in {j \in 1..n : /\ isNum(j) /\ j + 3 <= n
                                /\ s[j + 1] \in {"-", "to", "or"}
                                /\ isNum(j + 2) /\ low[j + 3] \in LongUnitWords} }
       \cup
       { Match("TIME_FOR", 3, i, i + 2) :
            i \in {j \in 1..n : /\ low[j] = "for" /\ isNum(j + 1) /\ j + 2 <= n
                                /\ low[j + 2] \in LongUnitWords} }
       \cup
       UNION { { Match("TIME_UNTIL", 4, i, e) : e \in UntilEnds(low, i + 1) }
               : i \in {j \in 1..n : low[j] = "until"} }

\* the unit a token of a matched span stores, "" when it stores none
SpanUnit(t) ==
    IF t \in HourWords THEN "hour"
    ELSE IF t \in MinuteWords THEN "minute"
    ELSE IF t \in SecondWords THEN "second" ELSE ""

\* extract_time_with_spacy(doc, time_matcher): Return(time_info) or Raise(ValueError)
extract_time_with_spacy(s) ==
    LET matches == MatchOrder(create_time_matcher(s))
        low == Lower(s)
    IN IF matches = <<>> THEN Return(EmptyDict)
       ELSE LET m == matches[1]       \* every branch of the loop returns at once
                span == m.start .. m.end
                nums == {j \in span : LikeNum(s[j])}
                first == CHOOSE j \in nums : \A x \in nums : j <= x
                last == CHOOSE j \in nums : \A x \in nums : x <= j
                units == {j \in span : SpanUnit(low[j]) # ""}
                withUnit(d) == IF units = {} THEN d
                               ELSE DictSet(d, "unit", SpanUnit(low[CHOOSE j \in units : TRUE]))
            IN CASE m.type = "TIME_RANGE" ->
                      IF \E j \in nums : ~FloatReads(s[j])      \* int(float(...))
                      THEN Raise("ValueError")
                      ELSE Return(withUnit(DictSet(DictSet(EmptyDict, "duration_min",
                                                           NumVal(s[first])),
                                                   "duration_max", NumVal(s[last]))))
                 [] m.type \in {"TIME_DURATION", "TIME_FOR"} ->
                      IF \E j \in nums : ~FloatReads(s[j])      \* int(float(token.text))
                      THEN Raise("ValueError")
                      ELSE Return(withUnit(DictSet(EmptyDict, "duration", NumVal(s[last]))))
                 [] OTHER ->     \* TIME_UNTIL: span.text
                      Return(DictSet(DictSet(EmptyDict, "duration", SubSeq(s, m.start, m.end)),
                                     "type", "qualitative"))

\* the unit alternative of TIME_PATTERNS that matches at the start of the token, or ""
\* (hour|hr|hours|hrs|minute|min|minutes|mins|second|sec|seconds|secs)s?
PatternUnit(t) ==
    IF t \in {"hour", "hours"} THEN "hour"
    ELSE IF t \in {"hr", "hrs"} THEN "hr"
    ELSE IF t \in {"minute", "minutes"} THEN "minute"
    ELSE IF t \in {"min", "mins"} THEN "min"
    ELSE IF t \in {"second", "seconds"} THEN "second"
    ELSE IF t \in {"sec", "secs"} THEN "sec" ELSE ""

\* normalize_unit_to_singular(unit)
normalize_unit_to_singular(unit) ==
    IF unit = "" THEN "minute"
    ELSE IF unit \in {"hour", "hours", "hr", "hrs", "h"} THEN "hour"
    ELSE IF unit \in {"minute", "minutes", "min", "mins", "m"} THEN "minute"
    ELSE IF unit \in {"second", "seconds", "sec", "secs", "s"} THEN "second"
    ELSE unit

\* TIME_PATTERNS[k] matches the lower-case text at token i
TIME_PATTERNS(k, low, i) ==
    LET n == Len(low)
        isNum(j) == j <= n /\ low[j] \in Digits
        isUnit(j) == j <= n /\ PatternUnit(low[j]) # ""
    IN CASE k = 0 -> isNum(i) /\ i + 1 <= n /\ low[i + 1] \in {"to", "-"}
                     /\ isNum(i + 2) /\ isUnit(i + 3)
         [] k = 1 -> low[i] \in {"about", "approximately", "around", "for"}
                     /\ isNum(i + 1) /\ isUnit(i + 2)
         [] k = 2 -> isNum(i) /\ isUnit(i + 1)
         [] OTHER -> FALSE

\* re.search(TIME_PATTERNS[k], text_lower): the leftmost matching token, 0 if none
TimeSearch(k, low) ==
    LET hits == {i \in 1..Len(low) : TIME_PATTERNS(k, low, i)}
    IN IF hits = {} THEN 0 ELSE CHOOSE i \in hits : \A j \in hits : i <= j

UntilWords == {"golden", "brown", "soft", "tender", "translucent", "cooked", "done"}

\* the two qualitative_patterns: the matched text (match.group(0)), <<>> if none
QualitativeSearch(low) ==
    LET n == Len(low)
        a == {i \in 1..n : low[i] = "until" /\ i + 1 <= n /\ low[i + 1] \in UntilWords}
        b == {i \in 1..n : low[i] = "until"
                           /\ \E j \in (i + 2)..n : low[j] \in {"is", "are"}}
    IN IF a # {}
       THEN LET i == CHOOSE x \in a : \A y \in a : x <= y IN SubSeq(low, i, i + 1)
       ELSE IF b # {}
       THEN LET i == CHOOSE x \in b : \A y \in b : x <= y
                js == {j \in (i + 2)..n : low[j] \in {"is", "are"}}
            IN SubSeq(low, i, CHOOSE j \in js : \A y \in js : j <= y)
       ELSE <<>>

\* extract_time_from_text, the regex part (lines 67-118)
extract_time_legacy(s) ==
    LET text_lower == Lower(s)
        r == TimeSearch(0, text_lower)
        f == TimeSearch(1, text_lower)
        d == TimeSearch(2, text_lower)
        q == QualitativeSearch(text_lower)
    IN IF r # 0
       THEN DictSet(DictSet(DictSet(EmptyDict, "duration_min", NumVal(text_lower[r])),
                            "duration_max", NumVal(text_lower[r + 2])),
                    "unit", normalize_unit_to_singular(PatternUnit(text_lower[r + 3])))
       ELSE IF f # 0
       THEN DictSet(DictSet(EmptyDict, "duration", NumVal(text_lower[f + 1])),
                    "unit", normalize_unit_to_singular(PatternUnit(text_lower[f + 2])))
       ELSE IF d # 0
       THEN DictSet(DictSet(EmptyDict, "duration", NumVal(text_lower[d])),
                    "unit", normalize_unit_to_singular(PatternUnit(text_lower[d + 1])))
       ELSE IF q # <<>>
       THEN DictSet(DictSet(EmptyDict, "duration", q), "type", "qualitative")
       ELSE EmptyDict

\* extract_time_from_text without the fall back to the regex patterns
extract_time_from_text_no_fallback(s, spacy) ==
    IF spacy THEN extract_time_with_spacy(s) ELSE Return(extract_time_legacy(s))

\* extract_time_from_text(text, use_spacy) with the language model loaded:
\* Return(time_info), or the ValueError of the spaCy extraction
extract_time_from_text(s, spacy) ==
    LET spacy_time_info == IF spacy THEN extract_time_with_spacy(s) ELSE Return(EmptyDict)
    IN IF spacy_time_info.raised THEN spacy_time_info
       ELSE IF spacy /\ DOMAIN spacy_time_info.value # {}
       THEN spacy_time_info
       ELSE Return(extract_time_legacy(s))

(***************************************************************************)
(* Iteration over a set of strings: the order is fixed by the process's    *)
(* string-hash seed.  A lexicon is written in source order; the seeds of   *)
(* HashSeeds stand for two processes that iterate it in different orders.  *)
(***************************************************************************)
HashSeeds == {1, 2}

Reverse(q) == [i \in 1..Len(q) |-> q[Len(q) + 1 - i]]

\* "for x in <set>" in a process whose hash seed is seed
SetOrder(lexicon, seed) == IF seed = 1 THEN lexicon ELSE Reverse(lexicon)

Range(q) == {q[i] : i \in 1..Len(q)}

(***************************************************************************)
(* recipebot/parser/methods.py (the entries the vocabulary can spell).     *)
(***************************************************************************)
PRIMARY_METHODS ==
    << <<"bake">>, <<"baking">>, <<"roast">>, <<"roasting">>, <<"fry">>, <<"frying">>,
       <<"deep", "fry">>, <<"pan", "fry">> >>

METHOD_EXCLUDE_WORDS ==
    { <<"dry">>, <<"wet">>, <<"hot">>, <<"cold">>, <<"fresh">>, <<"new">>, <<"old">>,
      <<"raw">>, <<"cooked">>, <<"large">>, <<"small">>, <<"medium">> }

SECONDARY_METHODS ==
    << <<"stir">>, <<"stirring">>, <<"bread">>, <<"dry">>, <<"let", "stand">>, <<"cool">>,
       <<"chill">>, <<"heat">>, <<"preheat">> >>

\* method.rstrip("ing").rstrip("e"): trailing characters i, n, g are dropped, then e
RStripBase(m) ==
    CASE m = <<"bake">> -> <<"bak">>
      [] m = <<"baking">> -> <<"bak">>
      [] m = <<"roasting">> -> <<"roast">>
      [] m = <<"frying">> -> <<"fry">>
      [] m = <<"stirring">> -> <<"stirr">>
      [] OTHER -> m

\* _normalize_method(method): the suffixes ing, e, s are cut off in turn when the word
\* stays longer than two characters
normalize_method(m) ==
    CASE m = <<"bake">> -> <<"bak">>
      [] m = <<"baking">> -> <<"bak">>
      [] m = <<"roasting">> -> <<"roast">>
      [] m = <<"frying">> -> <<"fry">>
      [] m = <<"stirring">> -> <<"stirr">>
      [] OTHER -> m

RECURSIVE LegacyMethodLoop(_, _, _)
\* "for method in PRIMARY_METHODS: if method in text_lower: ..." (order: the set's)
LegacyMethodLoop(order, text_lower, found) ==
    IF order = <<>> THEN found
    ELSE LET method == Head(order)
             base_method == RStripBase(method)
             take == /\ InText(text_lower, method)
                     /\ base_method \notin Range(found)
                     /\ method \notin Range(found)
         IN LegacyMethodLoop(Tail(order), text_lower,
                             IF take THEN Append(found, method) ELSE found)

\* _extract_methods_legacy(text): <<found_primary, found_secondary>>
extract_methods_legacy(s, seed) ==
    LET text_lower == Lower(s)
    IN << LegacyMethodLoop(SetOrder(PRIMARY_METHODS, seed), text_lower, <<>>),
          LegacyMethodLoop(SetOrder(SECONDARY_METHODS, seed), text_lower, <<>>) >>

\* PhraseMatcher(attr="LOWER") over a lexicon: the spans [start, end] it matches
PhraseSpans(low, lexicon) ==
    { sp \in (1..Len(low)) \X (1..Len(low)) :
        \E k \in 1..Len(lexicon) :
            MatchAt(low, sp[1], lexicon[k]) /\ sp[2] = sp[1] + Len(lexicon[k]) - 1 }

RECURSIVE PhraseOrder(_)
\* the PhraseMatcher scans the document from left to right and follows each start to
\* its phrases: matches come by start, the shorter first
PhraseOrder(spans) ==
    IF spans = {} THEN <<>>
    ELSE LET m == CHOOSE x \in spans : \A y \in spans :
                     x[1] < y[1] \/ (x[1] = y[1] /\ x[2] <= y[2])
         IN <<m>> \o PhraseOrder(spans \ {m})

Overlaps(sp, spans) == \E o \in spans : sp[1] <= o[2] /\ sp[2] >= o[1]

\* the state of _extract_methods_with_spacy between its loops
MethodState(fp, fs, sp, ss, spans) ==
    [found_primary |-> fp, found_secondary |-> fs, seen_primary |-> sp,
     seen_secondary |-> ss, matched_spans |-> spans]

RECURSIVE PrimaryMatchLoop(_, _, _)
\* "for _match_id, start, end in primary_matches"
PrimaryMatchLoop(matches, low, st) ==
    IF matches = <<>> THEN st
    ELSE LET sp == Head(matches)
             method == SubSeq(low, sp[1], sp[2])
             base == normalize_method(method)
         IN IF Overlaps(sp, st.matched_spans) THEN PrimaryMatchLoop(Tail(matches), low, st)
            ELSE IF base \notin st.seen_primary /\ base \notin METHOD_EXCLUDE_WORDS
            THEN PrimaryMatchLoop(Tail(matches), low,
                    MethodState(Append(st.found_primary, method), st.found_secondary,
                                st.seen_primary \cup {base}, st.seen_secondary,
                                st.matched_spans \cup {sp}))
            ELSE PrimaryMatchLoop(Tail(matches), low, st)

RECURSIVE SecondaryMatchLoop(_, _, _)
\* "for _match_id, start, end in secondary_matches"
SecondaryMatchLoop(matches, low, st) ==
    IF matches = <<>> THEN st
    ELSE LET sp == Head(matches)
             method == SubSeq(low, sp[1], sp[2])
             base == normalize_method(method)
         IN IF Overlaps(sp, st.matched_spans) THEN SecondaryMatchLoop(Tail(matches), low, st)
            ELSE IF /\ base \notin st.seen_secondary
                    /\ base \notin st.seen_primary
                    /\ base \notin METHOD_EXCLUDE_WORDS
            THEN SecondaryMatchLoop(Tail(matches), low,
                    MethodState(st.found_primary, Append(st.found_secondary, method),
                                st.seen_primary, st.seen_secondary \cup {base},
                                st.matched_spans \cup {sp}))
            ELSE SecondaryMatchLoop(Tail(matches), low, st)

\* <<token, lemma>> of the tokens the tagger labels VERB
VerbLemma ==
    { <<"bake", "bake">>, <<"baked", "bake">>, <<"baking", "bake">>, <<"roast", "roast">>,
      <<"fry", "fry">>, <<"frying", "fry">>, <<"stir", "stir">>, <<"stirring", "stir">>,
      <<"preheat", "preheat">>, <<"cook", "cook">>, <<"cools", "cool">>,
      <<"chilled", "chill">>, <<"serve", "serve">>, <<"thicken", "thicken">> }

IsVerb(t) == \E p \in VerbLemma : p[1] = t
LemmaOf(t) == IF IsVerb(t) THEN (CHOOSE p \in VerbLemma : p[1] = t)[2] ELSE t

\* "for form in [lemma, lower]" for one verb token
VerbForms(st, forms) ==
    LET try(form, s0) ==
            IF form \in Range(PRIMARY_METHODS)
            THEN IF normalize_method(form) \notin s0.seen_primary
                 THEN <<TRUE, MethodState(Append(s0.found_primary, form), s0.found_secondary,
                                          s0.seen_primary \cup {normalize_method(form)},
                                          s0.seen_secondary, s0.matched_spans)>>
                 ELSE <<FALSE, s0>>
            ELSE IF form \in Range(SECONDARY_METHODS)
            THEN IF /\ normalize_method(form) \notin s0.seen_secondary
                    /\ normalize_method(form) \notin s0.seen_primary
                 THEN <<TRUE, MethodState(s0.found_primary, Append(s0.found_secondary, form),
                                          s0.seen_primary,
                                          s0.seen_secondary \cup {normalize_method(form)},
                                          s0.matched_spans)>>
                 ELSE <<FALSE, s0>>
            ELSE <<FALSE, s0>>
        one == try(forms[1], st)
    IN IF one[1] THEN one[2] ELSE try(forms[2], st)[2]      \* break after an append

RECURSIVE VerbLoop(_, _, _)
\* "for token in doc: if token.pos_ == VERB and token.i not in <matched spans>"
VerbLoop(i, low, st) ==
    IF i > Len(low) THEN st
    ELSE LET lemma == <<LemmaOf(low[i])>>
             lower == <<low[i]>>
             inSpan == \E sp \in st.matched_spans : sp[1] <= i /\ i <= sp[2]
         IN IF IsVerb(low[i]) /\ ~inSpan
               /\ lemma \notin METHOD_EXCLUDE_WORDS /\ lower \notin METHOD_EXCLUDE_WORDS
            THEN VerbLoop(i + 1, low, VerbForms(st, <<lemma, lower>>))
            ELSE VerbLoop(i + 1, low, st)

\* _extract_methods_with_spacy(text): <<found_primary, found_secondary>>
extract_methods_with_spacy(s) ==
    LET low == Lower(s)
        st0 == MethodState(<<>>, <<>>, {}, {}, {})
        st1 == PrimaryMatchLoop(PhraseOrder(PhraseSpans(low, PRIMARY_METHODS)), low, st0)
        st2 == SecondaryMatchLoop(PhraseOrder(PhraseSpans(low, SECONDARY_METHODS)), low, st1)
        st3 == VerbLoop(1, low, st2)
    IN <<st3.found_primary, st3.found_secondary>>

\* extract_methods_from_text(text, use_spacy)
extract_methods_from_text(s, spacy, seed) ==
    IF spacy THEN extract_methods_with_spacy(s) ELSE extract_methods_legacy(s, seed)

(***************************************************************************)
(* recipebot/tools.py (the entries the vocabulary can spell).              *)
(***************************************************************************)
ALL_TOOLS == << <<"pan">>, <<"frying", "pan">>, <<"oven">>, <<"pot">> >>

\* <<action, tool>> in the order the dict literal lists them
ACTION_TO_TOOL ==
    << <<<<"bake">>, <<"oven">>>>, <<<<"baking">>, <<"oven">>>>,
       <<<<"roast">>, <<"oven">>>>, <<<<"roasting">>, <<"oven">>>>,
       <<<<"fry">>, <<"frying", "pan">>>>, <<<<"frying">>, <<"frying", "pan">>>>,
       <<<<"stir">>, <<"spoon">>>>, <<<<"stirring">>, <<"spoon">>>> >>

RECURSIVE ExplicitTools(_, _, _)
\* "for tool in ALL_TOOLS: if tool in text_lower: found_tools.append(tool)"
ExplicitTools(order, text_lower, found) ==
    IF order = <<>> THEN found
    ELSE ExplicitTools(Tail(order), text_lower,
                       IF InText(text_lower, Head(order)) THEN Append(found, Head(order))
                       ELSE found)

RECURSIVE InferredTools(_, _, _)
\* "for action, tool in ACTION_TO_TOOL.items(): ..."
InferredTools(items, text_lower, found) ==
    IF items = <<>> THEN found
    ELSE LET action == Head(items)[1]
             tool == Head(items)[2]
         IN InferredTools(Tail(items), text_lower,
                          IF InText(text_lower, action) /\ tool \notin Range(found)
                          THEN Append(found, tool) ELSE found)

RECURSIVE Unique(_, _)
\* "Remove duplicates while preserving order"
Unique(found, unique_tools) ==
    IF found = <<>> THEN unique_tools
    ELSE Unique(Tail(found), IF Head(found) \in Range(unique_tools) THEN unique_tools
                             ELSE Append(unique_tools, Head(found)))

\* extract_tools_from_text(text)
extract_tools_from_text(s, seed) ==
    LET text_lower == Lower(s)
        explicit == ExplicitTools(SetOrder(ALL_TOOLS, seed), text_lower, <<>>)
    IN Unique(InferredTools(ACTION_TO_TOOL, text_lower, explicit), <<>>)

(***************************************************************************)
(* recipebot/parser/step.py: classify_step_type.                           *)
(***************************************************************************)
warning_patterns ==
    { <<"be", "careful">>, <<"do", "not">>, <<"don't">>, <<"avoid">>, <<"make", "sure">>,
      <<"watch">>, <<"be", "sure">>, <<"ensure">> }

advice_patterns ==
    { <<"you", "can">>, <<"alternatively">>, <<"tip", ":">>, <<"note", ":">>, <<"optional">>,
      <<"if", "desired">>, <<"for", "best", "results">> }

observation_patterns ==
    { <<"will", "be">>, <<"should", "be">>, <<"will", "look">>, <<"should", "look">>,
      <<"will", "become">>, <<"it", "will">>, <<"this", "will">>,
      <<"the", "mixture", "will">> }

\* prep_patterns without its "let cool" entry
prep_patterns_without_let_cool ==
    { <<"set", "aside">>, <<"reserve">>, <<"let", "stand">>, <<"let", "sit">>,
      <<"let", "rest">>, <<"refrigerate">>, <<"chill">>, <<"freeze">> }

\* prep_patterns without its "chill" entry
prep_patterns_without_chill ==
    { <<"set", "aside">>, <<"reserve">>, <<"let", "stand">>, <<"let", "sit">>,
      <<"let", "rest">>, <<"let", "cool">>, <<"refrigerate">>, <<"freeze">> }

prep_patterns ==
    { <<"set", "aside">>, <<"reserve">>, <<"let", "stand">>, <<"let", "sit">>,
      <<"let", "rest">>, <<"let", "cool">>, <<"refrigerate">>, <<"chill">>, <<"freeze">> }

\* token.lemma_ of the language model, for the verbs the classifier asks about
StateVerbForms == { "be", "is", "are", "look", "looks", "become", "becomes" }

\* "token.tag_ == MD, token.lower_ in [will, should], and a child of it has lemma be,
\* look or become": the dependency parse is the language model's answer; it can give
\* such a child only when the text holds a modal and a state verb.
ModalGovernsStateVerb(s, oracle) ==
    /\ oracle
    /\ \E i, j \in 1..Len(s) :
          /\ i # j
          /\ LowerTok(s[i]) \in {"will", "should"}
          /\ LowerTok(s[j]) \in StateVerbForms

\* classify_step_type with the advice test moved in front of the warning test
classify_step_type_advice_first(s, spacy, oracle) ==
    LET text_lower == Lower(s)
    IN IF AnyInText(text_lower, advice_patterns) THEN <<FALSE, FALSE, "advice">>
       ELSE IF AnyInText(text_lower, warning_patterns) THEN <<TRUE, FALSE, "warning">>
       ELSE IF spacy /\ ModalGovernsStateVerb(s, oracle) THEN <<FALSE, FALSE, "observation">>
       ELSE IF AnyInText(text_lower, observation_patterns)
            THEN <<FALSE, FALSE, "observation">>
       ELSE <<TRUE, AnyInText(text_lower, prep_patterns), "None">>

\* classify_step_type with is_prepared computed first and returned by every rule
classify_step_type_prep_everywhere(s, spacy, oracle) ==
    LET text_lower == Lower(s)
        is_prepared == AnyInText(text_lower, prep_patterns)
    IN IF AnyInText(text_lower, warning_patterns) THEN <<TRUE, is_prepared, "warning">>
       ELSE IF AnyInText(text_lower, advice_patterns) THEN <<FALSE, is_prepared, "advice">>
       ELSE IF spacy /\ ModalGovernsStateVerb(s, oracle)
            THEN <<FALSE, is_prepared, "observation">>
       ELSE IF AnyInText(text_lower, observation_patterns)
            THEN <<FALSE, is_prepared, "observation">>
       ELSE <<TRUE, is_prepared, "None">>

\* classify_step_type(text, use_spacy): <<actionable, is_prepared, info_type>>
classify_step_type(s, spacy, oracle) ==
    LET text_lower == Lower(s)
    IN IF AnyInText(text_lower, warning_patterns) THEN <<TRUE, FALSE, "warning">>
       ELSE IF AnyInText(text_lower, advice_patterns) THEN <<FALSE, FALSE, "advice">>
       ELSE IF spacy /\ ModalGovernsStateVerb(s, oracle) THEN <<FALSE, FALSE, "observation">>
       ELSE IF AnyInText(text_lower, observation_patterns)
            THEN <<FALSE, FALSE, "observation">>
       ELSE <<TRUE, AnyInText(text_lower, prep_patterns), "None">>


(***************************************************************************)
(* recipebot/parser/step.py: extract_ingredients_from_step, and            *)
(* match_ingredient_with_spacy of spacy_utils.py.  An ingredient is        *)
(* modelled by its name.                                                   *)
(***************************************************************************)
\* len(part) > 3 for the words of the ingredient names
LongerThan3 == {"bread", "sauce", "tomato"}

\* name + "s"
PluralOf(name) ==
    [i \in 1..Len(name) |->
        IF i < Len(name) THEN name[i]
        ELSE CASE name[i] = "bread" -> "breads" [] name[i] = "sauce" -> "sauces"
               [] OTHER -> name[i]]

\* the legacy tests for one ingredient (lines 326-350)
MatchIngredientLegacy(name, step_text_lower) ==
    LET name_lower == Lower(name)
    IN \/ InText(step_text_lower, name_lower)
       \/ InText(step_text_lower, <<"the">> \o name_lower)
       \/ name_lower[Len(name_lower)] \in {"bread", "sauce"}
          /\ InText(step_text_lower, PluralOf(name_lower))
       \/ \E k \in 1..Len(name_lower) :
             name_lower[k] \in LongerThan3 /\ InText(step_text_lower, <<name_lower[k]>>)

\* token.is_stop and token.lemma_ for the words of the vocabulary
StopWords == {"the", "and", "then", "it", "you", "do", "not", "will", "be", "to", "for"}
NounLemma(t) == CASE t = "breads" -> "bread" [] t = "sauces" -> "sauce" [] OTHER -> t

\* match_ingredient_with_spacy(ingredient_name, doc, nlp); the noun chunks hold
\* tokens of the document only, so the token loop decides
match_ingredient_with_spacy(name, s) ==
    LET name_lower == Lower(name)
        doc_lower == Lower(s)
        ingredient_lemmas == { NounLemma(name_lower[k]) :
                                 k \in {x \in 1..Len(name_lower) : name_lower[x] \notin StopWords} }
    IN \/ InText(doc_lower, name_lower)
       \/ \E i \in 1..Len(s) :
             NounLemma(LemmaOf(doc_lower[i])) \in ingredient_lemmas
             /\ doc_lower[i] \notin StopWords

\* the loop with found_ingredients.insert(0, ingredient) in place of append
extract_ingredients_from_step_prepending(s, ingredients, spacy) ==
    Reverse(SelectSeq(ingredients,
                      LAMBDA name : IF spacy THEN match_ingredient_with_spacy(name, s)
                                    ELSE MatchIngredientLegacy(name, Lower(s))))

\* extract_ingredients_from_step(step_text, all_ingredients, use_spacy)
extract_ingredients_from_step(s, ingredients, spacy) ==
    SelectSeq(ingredients,
              LAMBDA name : IF spacy THEN match_ingredient_with_spacy(name, s)
                            ELSE MatchIngredientLegacy(name, Lower(s)))

(***************************************************************************)
(* recipebot/model.py: Step.  Step(...) validates its arguments: time is   *)
(* declared dict[str, int], so a time mapping with a string value (a unit, *)
(* a qualitative duration) is rejected; the class declares no info_type    *)
(* field, so that argument is not stored.                                  *)
(***************************************************************************)
StepTimeValid(time) == "unit" \notin DOMAIN time /\ "type" \notin DOMAIN time

Step(n, description, ingredients, tools, methods, time, temperature, actionable, is_prepared, info_type) ==
    IF StepTimeValid(time)
    THEN Return([step_number |-> n, description |-> description,
                 ingredients |-> ingredients, tools |-> tools, methods |-> methods,
                 time |-> time, temperature |-> temperature,
                 actionable |-> actionable, is_prepared |-> is_prepared])
    ELSE Raise("ValidationError")

(***************************************************************************)
(* recipebot/parser/step.py: parse_steps_from_directions.                  *)
(***************************************************************************)
BakeRoast == { <<"bake">>, <<"baking">>, <<"roast">>, <<"roasting">> }

\* the carry-forward without its "if baking/roasting" test
CarryForward_any_method(primary_methods, temp_info, ctx) ==
    IF "oven" \notin DOMAIN temp_info /\ "oven_temp" \in DOMAIN ctx
    THEN DictSet(temp_info, "oven", ctx["oven_temp"])
    ELSE temp_info

\* lines 393-396: temp_info after "Carry forward oven temperature from context"
CarryForward(primary_methods, temp_info, ctx) ==
    IF /\ \E k \in 1..Len(primary_methods) : primary_methods[k] \in BakeRoast
       /\ "oven" \notin DOMAIN temp_info
       /\ "oven_temp" \in DOMAIN ctx
    THEN DictSet(temp_info, "oven", ctx["oven_temp"])
    ELSE temp_info

\* lines 398-400: context after "Update context with new temperature"
UpdateContext(temp_info, ctx) ==
    IF "oven" \in DOMAIN temp_info THEN DictSet(ctx, "oven_temp", temp_info["oven"]) ELSE ctx

\* line 382 with the split_by_atomic_steps test dropped
AtomicStepsOf_always_split(direction, split, spacy) ==
    split_into_atomic_steps(direction, spacy)

\* line 382: the atomic steps of one direction
AtomicStepsOf(direction, split, spacy) ==
    IF split THEN split_into_atomic_steps(direction, spacy) ELSE Return(<<direction>>)

\* the counter left as it is
NextStepNumber_forgotten(n) == n

\* line 423: step_number += 1
NextStepNumber(n) == n + 1

\* the directions of the vocabulary
DirectionPool ==
    { <<"Preheat", "oven", "to", "350", "°F", ".">>,
      <<"Heat", "the", "pan", "to", "400", "°F", ".">>,
      <<"Bake", "the", "bread", ".">>,
      <<"Bake", "for", "30", "minutes", ".">>,
      <<"Roast", "over", "high", "heat", ".">>,
      <<"Stir", "the", "sauce", ";", "bake", "the", "bread", ".">>,
      <<"Stir", "the", "sauce", ",", "then", "bake", "the", "bread", ".">>,
      <<"Fry", "the", "bread", "in", "the", "frying", "pan", ".", "Let", "cool", ".">> }

Catalogs == { << <<"bread">>, <<"sauce">> >> }

Init ==
    /\ SessionIdle
    /\ directions \in UNION { [1..n -> DirectionPool] : n \in 1..MaxDirs }
    /\ all_ingredients \in Catalogs
    /\ split_by_atomic_steps \in BOOLEAN
    /\ use_spacy \in BOOLEAN
    /\ hashSeed \in HashSeeds
    /\ depOracle = FALSE      \* no direction of the pool holds a modal verb
    /\ model_installed = TRUE
    /\ _nlp = "None"
    /\ dirIdx = 0
    /\ atomic_steps = <<>>
    /\ steps = <<>>
    /\ step_number = 1
    /\ context = EmptyDict
    /\ pc = "loop"
    /\ text = <<>>
    /\ call = "idle"
    /\ result = Return(<<>>)

\* "for direction in directions": the next direction is segmented (line 382)
NextDirection ==
    /\ pc = "loop"
    /\ atomic_steps = <<>>
    /\ dirIdx < Len(directions)
    /\ \E direction \in {directions[dirIdx + 1]},
          g \in {LoadFor(split_by_atomic_steps /\ use_spacy, _nlp, model_installed)} :
       \E r \in {IF g.raised THEN g
                 ELSE AtomicStepsOf(direction, split_by_atomic_steps, use_spacy)} :
          /\ _nlp' = NlpAfter(_nlp, g)
          /\ atomic_steps' = r.value
          /\ pc' = IF r.raised THEN "raised" ELSE "loop"
    /\ dirIdx' = dirIdx + 1
    /\ UNCHANGED <<directions, split_by_atomic_steps, use_spacy, hashSeed, depOracle,
                   model_installed, all_ingredients, steps, step_number, context,
                   text, call, result>>
    /\ UNCHANGED sessionVars

\* "for atomic_step in atomic_steps": one pass of the loop body (lines 384-423)
ProcessAtomicStep ==
    /\ pc = "loop"
    /\ atomic_steps # <<>>
    /\ \E atomic_step \in {Head(atomic_steps)} :
       \E tools \in {extract_tools_from_text(atomic_step, hashSeed)},
          methods \in {extract_methods_from_text(atomic_step, use_spacy, hashSeed)},
          timed \in {extract_time_from_text(atomic_step, use_spacy)},
          extracted \in {extract_temperature_from_text(atomic_step, use_spacy)},
          cls \in {classify_step_type(atomic_step, use_spacy, depOracle)},
          step_ingredients \in
              {extract_ingredients_from_step(atomic_step, all_ingredients, use_spacy)} :
       \E primary_methods \in {methods[1]}, all_methods \in {methods[1] \o methods[2]} :
       \E temp_info \in {CarryForward(primary_methods, extracted, context)} :
       \E g \in {LoadFor(use_spacy, _nlp, model_installed)} :
       \E step \in {IF g.raised THEN g            \* get_nlp of the method extractor
                    ELSE IF timed.raised THEN timed
                    ELSE Step(step_number, atomic_step, step_ingredients, tools,
                              all_methods, timed.value, temp_info,
                              cls[1], cls[2], cls[3])} :
          /\ _nlp' = NlpAfter(_nlp, g)
          /\ context' = IF g.raised \/ timed.raised THEN context
                        ELSE UpdateContext(temp_info, context)
          /\ IF step.raised
             THEN /\ pc' = "raised"
                  /\ UNCHANGED <<steps, step_number, atomic_steps>>
             ELSE /\ steps' = Append(steps, step.value)
                  /\ step_number' = NextStepNumber(step_number)
                  /\ atomic_steps' = Tail(atomic_steps)
                  /\ pc' = "loop"
    /\ UNCHANGED <<directions, split_by_atomic_steps, use_spacy, hashSeed, depOracle,
                   model_installed, all_ingredients, dirIdx, text, call, result>>
    /\ UNCHANGED sessionVars

\* "return steps" (line 425)
ReturnSteps ==
    /\ pc = "loop"
    /\ atomic_steps = <<>>
    /\ dirIdx = Len(directions)
    /\ pc' = "done"
    /\ UNCHANGED <<directions, split_by_atomic_steps, use_spacy, hashSeed, depOracle,
                   model_installed, _nlp, all_ingredients, dirIdx, atomic_steps, steps,
                   step_number, context, text, call, result>>
    /\ UNCHANGED sessionVars

Next == NextDirection \/ ProcessAtomicStep \/ ReturnSteps

Spec == Init /\ [][Next]_vars

(***************************************************************************)
(* Properties of parse_steps_from_directions (specification Spec).         *)
(***************************************************************************)
\* what the temperature extractor reads in a step's own text
OwnTemperature(i) == extract_temperature_from_text(steps[i].description, use_spacy)

\* the primary methods of a step's own text
OwnPrimaryMethods(i) ==
    extract_methods_from_text(steps[i].description, use_spacy, hashSeed)[1]

IsBakeRoastStep(i) ==
    \E k \in 1..Len(OwnPrimaryMethods(i)) : OwnPrimaryMethods(i)[k] \in BakeRoast

\* C1: the steps carry step_number 1, 2, ..., n in output order, for every list of
\* directions and both values of split_by_atomic_steps, however many atomic steps a
\* direction expands into.
C1_StepNumbersContiguous ==
    /\ \A i \in 1..Len(steps) : steps[i].step_number = i
    /\ step_number = Len(steps) + 1

\* a parse that returned three steps for two directions
C1_Witness == pc = "done" /\ Len(directions) = 2 /\ Len(steps) = 3

RECURSIVE RememberedOven(_)
\* the oven reading of the most recent step among the first i that yielded one
\* (<<>> when there is none)
RememberedOven(i) ==
    IF i = 0 THEN <<>>
    ELSE IF "oven" \in DOMAIN OwnTemperature(i) THEN OwnTemperature(i)["oven"]
    ELSE RememberedOven(i - 1)

PreheatThenBake ==
    << <<"Preheat", "oven", "to", "350", "°F", ".">>,
       <<"Bake", "for", "30", "minutes", ".">> >>

\* C2: a bake/roast step whose own text yields no oven reading gets the oven reading
\* of the most recent earlier step that yielded one, every oven reading replaces the
\* remembered one, and the directions "Preheat oven to 350°F.", "Bake for 30 minutes."
\* give a second step whose temperature is {oven: "350°F"}.
C2_OvenCarriedForward ==
    /\ \A i \in 1..Len(steps) :
          IsBakeRoastStep(i) /\ "oven" \notin DOMAIN OwnTemperature(i)
          /\ RememberedOven(i - 1) # <<>>
          => /\ "oven" \in DOMAIN steps[i].temperature
             /\ steps[i].temperature["oven"] = RememberedOven(i - 1)
    /\ directions = PreheatThenBake /\ pc \in {"done", "raised"}
       => /\ pc = "done"
          /\ Len(steps) = 2
          /\ steps[2].temperature = [oven |-> OvenText("350", "F")]

\* C3: nothing but the oven temperature is carried between steps: tools, methods,
\* time, qualitative heat, classification and ingredients of a step are those of its
\* own text, and a step that neither bakes nor roasts has exactly the temperature its
\* own text yields.
C3_OnlyOvenIsCarried ==
    pc # "loop" =>      \* the loop has ended: steps holds every step it built
    \A i \in 1..Len(steps) :
    \A d \in {steps[i].description} :
    \A m \in {extract_methods_from_text(d, use_spacy, hashSeed)},
       c \in {classify_step_type(d, use_spacy, depOracle)},
       own \in {extract_temperature_from_text(d, use_spacy)},
       temperature \in {steps[i].temperature} :
        /\ steps[i].tools = extract_tools_from_text(d, hashSeed)
        /\ steps[i].methods = m[1] \o m[2]
        /\ steps[i].time = extract_time_from_text(d, use_spacy).value
        /\ steps[i].actionable = c[1]
        /\ steps[i].is_prepared = c[2]
        /\ steps[i].ingredients = extract_ingredients_from_step(d, all_ingredients, use_spacy)
        /\ "heat" \in DOMAIN temperature <=> "heat" \in DOMAIN own
        /\ "heat" \in DOMAIN own => temperature["heat"] = own["heat"]
        /\ (\A k \in 1..Len(m[1]) : m[1][k] \notin BakeRoast) => temperature = own

\* a step that neither bakes nor roasts, right after a step with an oven temperature
C3_Witness ==
    \E i \in 2..Len(steps) :
        /\ "oven" \in DOMAIN steps[i - 1].temperature
        /\ ~IsBakeRoastStep(i)
        /\ steps[i].temperature = EmptyDict

RECURSIVE ExpectedDescriptions(_)
\* segment(direction) of the first k directions, one after the other
ExpectedDescriptions(k) ==
    IF k = 0 THEN <<>>
    ELSE ExpectedDescriptions(k - 1)
         \o (IF split_by_atomic_steps
             THEN split_into_atomic_steps(directions[k], use_spacy).value
             ELSE <<directions[k]>>)

\* C4: the descriptions of the returned steps are segment(direction) of the
\* directions in input order, one after the other (the direction itself when
\* split_by_atomic_steps is false); so there are at least as many steps as
\* directions, and exactly as many when splitting is off.
C4_DescriptionsAreSegments ==
    pc = "done"
    => /\ <<>> \o [i \in 1..Len(steps) |-> steps[i].description]
          = ExpectedDescriptions(Len(directions))
       /\ Len(steps) >= Len(directions)
       /\ ~split_by_atomic_steps => Len(steps) = Len(directions)

\* a parse with splitting on that returned more steps than it was given directions
C4_Witness == pc = "done" /\ split_by_atomic_steps /\ Len(steps) > Len(directions)

\* C6: parse is deterministic: the steps, with the order inside tools and methods,
\* are the same in every run on the same input, whatever order the lexicon sets are
\* iterated in.
C6_OrderIndependentOfSetIteration ==
    pc = "done"
    => \A seed \in HashSeeds : \A i \in 1..Len(steps) :
          LET m == extract_methods_from_text(steps[i].description, use_spacy, seed)
          IN /\ steps[i].methods = m[1] \o m[2]
             /\ steps[i].tools = extract_tools_from_text(steps[i].description, seed)

\* C7: the temperature of every step is empty, or holds only oven, or holds only
\* heat; never both, also when a bake/roast step with a qualitative heat level
\* receives the carried-forward oven temperature.
C7_OvenOrHeatNotBoth ==
    \A i \in 1..Len(steps) :
        \/ steps[i].temperature = EmptyDict
        \/ DOMAIN steps[i].temperature = {"oven"}
        \/ DOMAIN steps[i].temperature = {"heat"}

\* all non-empty texts of at most n tokens over the token set toks
TextsOver(toks, n) == UNION { [1..m -> toks] : m \in 1..n }

(***************************************************************************)
(* Single calls of the pure functions: the state before parse is called    *)
(* (pc = "idle") and one call of one function on text.                     *)
(***************************************************************************)
ParseIdle ==
    /\ directions = <<>>
    /\ split_by_atomic_steps = TRUE
    /\ hashSeed = 1
    /\ all_ingredients = <<>>
    /\ dirIdx = 0
    /\ atomic_steps = <<>>
    /\ steps = <<>>
    /\ step_number = 1
    /\ context = EmptyDict
    /\ pc = "idle"
    /\ model_installed = TRUE
    /\ _nlp = "None"

SegTokens == {"Stir", "bake", ".", ";", ",", "and", "then"}

SegExamples ==
    { <<"Stir", "the", "sauce", ",", "then", "bake", "the", "bread", ".">>,
      <<"Stir", "the", "sauce", ",", "and", "then", "bake", "the", "bread", ".">>,
      <<"Stir", "the", "sauce", ".", "Meanwhile", "bake", "the", "bread", ".">>,
      <<"Stir", "the", "sauce", "while", "the", "bread", "cools", ".">> }

InitSegment ==
    /\ ParseIdle
    /\ SessionIdle
    /\ text \in TextsOver(SegTokens, MaxSegLen) \cup SegExamples
    /\ use_spacy \in BOOLEAN
    /\ depOracle = FALSE
    /\ call = "idle"
    /\ result = Return(<<>>)

\* one call split_into_atomic_steps(text, use_spacy)
CallSegment ==
    /\ call = "idle"
    /\ call' = "split_into_atomic_steps"
    /\ \E g \in {LoadFor(use_spacy, _nlp, model_installed)} :
          /\ _nlp' = NlpAfter(_nlp, g)
          /\ result' = IF g.raised THEN g ELSE split_into_atomic_steps(text, use_spacy)
    /\ UNCHANGED <<parseVars, use_spacy, depOracle, model_installed, text>>
    /\ UNCHANGED sessionVars

NextSegment == CallSegment

SpecSegment == InitSegment /\ [][NextSegment]_vars

ClsTokens == {"Do", "not", "avoid", "optional", "will", "be", "chill", "Let", "cool", "stir"}

ClsExamples ==
    { <<"Do", "not", "overmix", "the", "batter", ".">>,
      <<"Let", "cool", "before", "serving", ".">>,
      <<"The", "mixture", "will", "thicken", "as", "it", "cools", ".">> }

InitClassify ==
    /\ ParseIdle
    /\ SessionIdle
    /\ text \in TextsOver(ClsTokens, MaxClsLen) \cup ClsExamples
    /\ use_spacy \in BOOLEAN
    /\ depOracle \in BOOLEAN
    /\ call = "idle"
    /\ result = Return(<<>>)

\* one call classify_step_type(text, use_spacy)
CallClassify ==
    /\ call = "idle"
    /\ call' = "classify_step_type"
    /\ \E g \in {LoadFor(use_spacy, _nlp, model_installed)} :
          /\ _nlp' = NlpAfter(_nlp, g)
          /\ result' = IF g.raised THEN g
                       ELSE Return(classify_step_type(text, use_spacy, depOracle))
    /\ UNCHANGED <<parseVars, use_spacy, depOracle, model_installed, text>>
    /\ UNCHANGED sessionVars

NextClassify == CallClassify

SpecClassify == InitClassify /\ [][NextClassify]_vars

(***************************************************************************)
(* Single calls of the extractors (specification SpecExtract): one call of *)
(* extract_time_from_text, extract_temperature_from_text,                  *)
(* extract_methods_from_text, extract_tools_from_text,                     *)
(* extract_ingredients_from_step, split_into_atomic_steps or               *)
(* classify_step_type on text, in a process whose language model may be    *)
(* missing.                                                                *)
(***************************************************************************)
ExtTokens ==
    {"5", "minutes", "two", "until", "tender", "medium", "heat",
     "deep", "fry", "frying", "pan", "dry", "bread", "sauce"}

ExtExamples ==
    { <<"cook", "until", "tender", ",", "about", "5", "minutes">>,
      <<"cook", "for", "5", "minutes", "until", "tender">>,
      <<"cook", "2", "-", "3", "hours", "until", "tender">>,
      <<"bake", "until", "golden", "brown", "for", "2", "to", "3", "hours">>,
      <<"cook", "5", "m">>,
      <<"cook", "over", "medium", "heat">>,
      <<"deep", "fry", "the", "bread">>,
      <<"Fry", "the", "bread", "in", "the", "frying", "pan", ".">>,
      <<"Continue", "stirring", "the", "sauce", ".">>,
      <<"Pat", "the", "bread", "dry", ".">>,
      <<"Cook", "for", "two", "minutes", ".">>,
      <<"cook", "until", "the", "sauce", "is", "tender">> }

ExtCatalogs ==
    { << <<"bread">>, <<"sauce">> >>,
      << <<"tomato", "sauce">>, <<"bread">>, <<"sauce">> >> }

InitExtract ==
    /\ SessionIdle
    /\ directions = <<>>
    /\ split_by_atomic_steps = TRUE
    /\ dirIdx = 0
    /\ atomic_steps = <<>>
    /\ steps = <<>>
    /\ step_number = 1
    /\ context = EmptyDict
    /\ pc = "idle"
    /\ text \in TextsOver(ExtTokens, MaxExtLen) \cup ExtExamples
    /\ all_ingredients \in ExtCatalogs
    /\ use_spacy \in BOOLEAN
    /\ hashSeed \in HashSeeds
    /\ depOracle = FALSE
    /\ model_installed \in (IF use_spacy THEN BOOLEAN ELSE {TRUE})
    /\ _nlp = "None"
    /\ call = "idle"
    /\ result = Return(<<>>)

\* one call extract_time_from_text(text, use_spacy)
CallTime ==
    /\ call = "idle"
    /\ call' = "extract_time_from_text"
    /\ \E g \in {LoadFor(use_spacy, _nlp, model_installed)} :
          /\ _nlp' = NlpAfter(_nlp, g)
          /\ result' = IF g.raised THEN g ELSE extract_time_from_text(text, use_spacy)
    /\ UNCHANGED <<parseVars, use_spacy, depOracle, model_installed, text>>
    /\ UNCHANGED sessionVars

\* one call extract_temperature_from_text(text, use_spacy)
CallTemperature ==
    /\ call = "idle"
    /\ call' = "extract_temperature_from_text"
    /\ \E g \in {LoadFor(use_spacy, _nlp, model_installed)} :
          /\ _nlp' = NlpAfter(_nlp, g)
          /\ result' = IF g.raised THEN g
                       ELSE Return(extract_temperature_from_text(text, use_spacy))
    /\ UNCHANGED <<parseVars, use_spacy, depOracle, model_installed, text>>
    /\ UNCHANGED sessionVars

\* one call extract_methods_from_text(text, use_spacy)
CallMethods ==
    /\ call = "idle"
    /\ call' = "extract_methods_from_text"
    /\ \E g \in {LoadFor(use_spacy, _nlp, model_installed)} :
          /\ _nlp' = NlpAfter(_nlp, g)
          /\ result' = IF g.raised THEN g
                       ELSE Return(extract_methods_from_text(text, use_spacy, hashSeed))
    /\ UNCHANGED <<parseVars, use_spacy, depOracle, model_installed, text>>
    /\ UNCHANGED sessionVars

\* one call extract_tools_from_text(text): no language model is involved
CallTools ==
    /\ call = "idle"
    /\ call' = "extract_tools_from_text"
    /\ result' = Return(extract_tools_from_text(text, hashSeed))
    /\ UNCHANGED <<parseVars, use_spacy, depOracle, model_installed, _nlp, text>>
    /\ UNCHANGED sessionVars

\* one call extract_ingredients_from_step(text, all_ingredients, use_spacy)
CallIngredients ==
    /\ call = "idle"
    /\ call' = "extract_ingredients_from_step"
    /\ \E g \in {LoadFor(use_spacy, _nlp, model_installed)} :
          /\ _nlp' = NlpAfter(_nlp, g)
          /\ result' = IF g.raised THEN g
                       ELSE Return(extract_ingredients_from_step(text, all_ingredients,
                                                                 use_spacy))
    /\ UNCHANGED <<parseVars, use_spacy, depOracle, model_installed, text>>
    /\ UNCHANGED sessionVars

NextExtract ==
    \/ CallTime \/ CallTemperature \/ CallMethods \/ CallTools \/ CallIngredients
    \/ CallSegment \/ CallClassify

SpecExtract == InitExtract /\ [][NextExtract]_vars

(***************************************************************************)
(* Properties of split_into_atomic_steps (specification SpecSegment).      *)
(***************************************************************************)
\* C5: for every non-empty direction and both strategies split_into_atomic_steps
\* returns, without raising, a list of at least one fragment none of which is empty;
\* also for directions that contain ", then " or ", and then ".
C5_SegmentReturnsFragments ==
    call = "split_into_atomic_steps"
    => /\ ~result.raised
       /\ Len(result.value) >= 1
       /\ \A i \in 1..Len(result.value) : result.value[i] # <<>>

(***************************************************************************)
(* Properties of classify_step_type (specification SpecClassify).          *)
(***************************************************************************)
HasCaution == AnyInText(Lower(text), warning_patterns)
HasAdvisory == AnyInText(Lower(text), advice_patterns)
\* rule 3: an observation phrase, or (language model) a modal governing a state verb
HasObservation ==
    \/ AnyInText(Lower(text), observation_patterns)
    \/ use_spacy /\ ModalGovernsStateVerb(text, depOracle)
HasDeferredUse == AnyInText(Lower(text), prep_patterns)

Classified == call = "classify_step_type"

\* C8: the rules apply in the order caution, advisory, observation, default, and the
\* first that fires decides: a caution phrase gives (true, false, warning) whatever
\* else the text holds; without one an advisory phrase gives (false, false, advice);
\* with neither an observation phrase gives (false, false, observation).
C8_FirstRuleWins ==
    Classified
    => /\ HasCaution => result.value = <<TRUE, FALSE, "warning">>
       /\ ~HasCaution /\ HasAdvisory => result.value = <<FALSE, FALSE, "advice">>
       /\ ~HasCaution /\ ~HasAdvisory /\ HasObservation
          => result.value = <<FALSE, FALSE, "observation">>

\* a text with a caution phrase, an advisory phrase and a deferred-use phrase
C8_Witness ==
    /\ Classified
    /\ HasCaution /\ HasAdvisory /\ HasDeferredUse
    /\ result.value = <<TRUE, FALSE, "warning">>

\* C9: in every classification result, actionable = false implies info_type is advice
\* or observation, info_type = warning implies actionable, info_type advice or
\* observation implies not actionable, and is_prepared implies actionable with
\* info_type null.
C9_ResultConsistent ==
    Classified
    => LET actionable == result.value[1]
           is_prepared == result.value[2]
           info_type == result.value[3]
       IN /\ ~actionable => info_type \in {"advice", "observation"}
          /\ info_type = "warning" => actionable
          /\ info_type \in {"advice", "observation"} => ~actionable
          /\ is_prepared => actionable /\ info_type = "None"
          /\ info_type \in {"warning", "advice", "observation", "None"}

\* a text with a deferred-use phrase and an advisory phrase, classified as advice
C9_Witness ==
    /\ Classified
    /\ HasDeferredUse /\ HasAdvisory
    /\ result.value[3] = "advice"

LetCoolBeforeServing == <<"Let", "cool", "before", "serving", ".">>
DoNotOvermix == <<"Do", "not", "overmix", "the", "batter", ".">>
MixtureWillThicken == <<"The", "mixture", "will", "thicken", "as", "it", "cools", ".">>

\* C10: a text with "let cool" and no caution, advisory or observation phrase is
\* (true, true, null); "Do not overmix the batter." is (true, false, warning) and
\* "The mixture will thicken as it cools." is (false, false, observation); under both
\* strategies.
C10_LetCoolIsPrepared ==
    Classified
    => /\ InText(Lower(text), <<"let", "cool">>)
          /\ ~HasCaution /\ ~HasAdvisory /\ ~HasObservation
          => result.value = <<TRUE, TRUE, "None">>
       /\ text = DoNotOvermix => result.value = <<TRUE, FALSE, "warning">>
       /\ text = MixtureWillThicken => result.value = <<FALSE, FALSE, "observation">>

\* "Let cool before serving." classified with the language model
C10_Witness ==
    /\ Classified
    /\ text = LetCoolBeforeServing
    /\ use_spacy
    /\ result.value = <<TRUE, TRUE, "None">>

(***************************************************************************)
(* Properties of the extractors (specification SpecExtract).               *)
(***************************************************************************)
\* the text holds a numeric range "N - M <unit>" / "N to M <unit>"
HoldsRange(s) ==
    \E i \in 1..(Len(s) - 3) :
        /\ s[i] \in Digits /\ s[i + 1] \in {"-", "to"} /\ s[i + 2] \in Digits
        /\ Lower(s)[i + 3] \in LongUnitWords

\* the text holds a numeric duration "N <unit>"
HoldsDuration(s) ==
    \E i \in 1..(Len(s) - 1) : s[i] \in Digits /\ Lower(s)[i + 1] \in LongUnitWords

\* the text holds a qualitative "until <word>" phrase
HoldsUntil(s) ==
    \E i \in 1..(Len(s) - 1) : Lower(s)[i] = "until" /\ Lower(s)[i + 1] \in UntilWords

\* the call of extract_time_from_text has returned a mapping
TimeReturned == call = "extract_time_from_text" /\ ~result.raised

\* C11: the time extractor applies range, then single numeric duration, then the
\* qualitative "until" phrase, under both strategies: a text with a range yields
\* {duration_min, duration_max, unit}; a text with a single numeric duration and an
\* "until" phrase, in either order, yields the numeric {duration, unit}; only a text
\* without a numeric duration yields the qualitative result.
C11_RangeThenNumericThenUntil ==
    TimeReturned
    => /\ HoldsRange(text)
          => DOMAIN result.value = {"duration_min", "duration_max", "unit"}
       /\ HoldsDuration(text) /\ ~HoldsRange(text)
          => DOMAIN result.value = {"duration", "unit"}
       /\ "type" \in DOMAIN result.value => ~HoldsDuration(text)

\* the unit values of a time mapping
TimeUnits == {"hour", "minute", "second"}

\* C12: every non-empty time result, under both strategies and for every accepted
\* unit spelling (h, m, s included), is {duration: int, unit}, or {duration_min: int,
\* duration_max: int, unit}, or {duration: text, type: "qualitative"}; when a numeric
\* duration is present the unit is present and is hour, minute or second.
C12_TimeResultShape ==
    TimeReturned /\ result.value # EmptyDict
    => \/ /\ DOMAIN result.value = {"duration", "unit"}
          /\ result.value["duration"] \in Nat
          /\ result.value["unit"] \in TimeUnits
       \/ /\ DOMAIN result.value = {"duration_min", "duration_max", "unit"}
          /\ result.value["duration_min"] \in Nat
          /\ result.value["duration_max"] \in Nat
          /\ result.value["unit"] \in TimeUnits
       \/ /\ DOMAIN result.value = {"duration", "type"}
          /\ result.value["duration"] \in Seq(ExtTokens \cup {"golden", "brown"})
          /\ result.value["type"] = "qualitative"

\* the text holds "<level> heat" at token i
HeatPhraseAt(s, i) == i + 1 <= Len(s) /\ Lower(s)[i] \in HeatLevels /\ Lower(s)[i + 1] = "heat"

\* the only temperature signal of the text is a qualitative heat level
OnlyHeatSignal(s) ==
    /\ \E i \in 1..Len(s) : HeatPhraseAt(s, i)
    /\ \A i \in 1..Len(s) : ~LikeNum(s[i]) /\ Lower(s)[i] \notin {"preheat", "preheating"}

\* C13: for a text whose only temperature signal is a qualitative heat level (e.g.
\* "cook over medium heat") the temperature extractor returns {heat: "<level> heat"}
\* under both strategies.
C13_HeatLevelReturned ==
    call = "extract_temperature_from_text" /\ ~result.raised /\ OnlyHeatSignal(text)
    => /\ DOMAIN result.value = {"heat"}
       /\ \E i \in 1..Len(text) :
             HeatPhraseAt(text, i) /\ Lower(result.value["heat"]) = SubSeq(Lower(text), i, i + 1)

\* the tool is named in the text
NamedInText(tool, s) == \E k \in 1..Len(ALL_TOOLS) : ALL_TOOLS[k] = tool /\ InText(Lower(s), tool)

\* C14: extract_tools_from_text returns a list without duplicates in which the tools
\* named in the text come before the tools inferred from actions, an inferred tool is
\* added only when it is not yet present, and the named tools appear in one fixed
\* lexicon order (the same in every process).
C14_ToolsOrdered ==
    call = "extract_tools_from_text"
    => /\ \A i, j \in 1..Len(result.value) : result.value[i] = result.value[j] => i = j
       /\ \A i, j \in 1..Len(result.value) :
             i < j /\ NamedInText(result.value[j], text) => NamedInText(result.value[i], text)
       /\ \A seed \in HashSeeds : extract_tools_from_text(text, seed) = result.value

\* the call of extract_methods_from_text has returned <<primary, secondary>>
MethodsReturned == call = "extract_methods_from_text" /\ ~result.raised

\* the text says "deep fry", and "fry" occurs in it only as the second word of that phrase
OnlyDeepFry(s) ==
    /\ \E i \in 1..Len(s) : MatchAt(Lower(s), i, <<"deep", "fry">>)
    /\ \A i \in 1..Len(s) :
          HasPrefix(Lower(s)[i], "fry")
          => Lower(s)[i] = "fry" /\ i > 1 /\ Lower(s)[i - 1] = "deep"

\* C15: when the text matches overlapping lexicon phrases only the longest is
\* recorded: for a text with "deep fry" the primary methods contain "deep fry" and
\* not "fry", under both strategies and whatever order the lexicon is examined in.
C15_LongestPhraseOnly ==
    MethodsReturned /\ OnlyDeepFry(text)
    => /\ <<"deep", "fry">> \in Range(result.value[1])
       /\ <<"fry">> \notin Range(result.value[1])

\* <<verb, its -ing form>> for the methods of the vocabulary
IngFormOf ==
    { << <<"bake">>, <<"baking">> >>, << <<"roast">>, <<"roasting">> >>,
      << <<"fry">>, <<"frying">> >>, << <<"stir">>, <<"stirring">> >> }

\* C16: no result of the method extractor holds two methods that are equal after
\* normalization (trailing ing, e, s cut off), and none holds a verb together with its
\* -ing form (fry and frying), in the primary list, in the secondary list or across
\* the two.
C16_NoNormalizedDuplicates ==
    MethodsReturned
    => \A all \in {result.value[1] \o result.value[2]} :
       \A i, j \in 1..Len(all) :
          i # j => /\ normalize_method(all[i]) # normalize_method(all[j])
                   /\ <<all[i], all[j]>> \notin IngFormOf

\* C17: no word of the exclusion list (dry, wet, hot, cold, fresh, new, old, raw,
\* cooked, large, small, medium) is returned as a primary or a secondary method under
\* either strategy, also when the word is a lexicon entry ("dry") and is in the text.
C17_ExcludedWordsNotReturned ==
    MethodsReturned
    => \A m \in Range(result.value[1]) \cup Range(result.value[2]) :
          m \notin METHOD_EXCLUDE_WORDS

\* r is a sub-list of c: the entries of r are entries of c at increasing positions
IsSubList(r, c) ==
    \E f \in [1..Len(r) -> 1..Len(c)] :
        /\ \A i, j \in 1..Len(r) : i < j => f[i] < f[j]
        /\ \A i \in 1..Len(r) : r[i] = c[f[i]]

\* the call of extract_ingredients_from_step has returned a list
IngredientsReturned == call = "extract_ingredients_from_step" /\ ~result.raised

\* C18: extract_ingredients_from_step returns a sub-list of all_ingredients in
\* catalog order, whatever the order of the mentions in the text, with no catalog
\* entry more than once, under both strategies.
C18_IngredientsInCatalogOrder ==
    IngredientsReturned
    => /\ IsSubList(result.value, all_ingredients)
       /\ \A i, j \in 1..Len(result.value) : result.value[i] = result.value[j] => i = j

\* the text names the sauce before the bread, the catalog lists the bread first
C18_Witness ==
    /\ IngredientsReturned
    /\ text = <<"sauce", "bread">>
    /\ all_ingredients = << <<"bread">>, <<"sauce">> >>
    /\ result.value = << <<"bread">>, <<"sauce">> >>

\* the four extractors of time, temperature, tools and methods
Extractors ==
    {"extract_time_from_text", "extract_temperature_from_text",
     "extract_tools_from_text", "extract_methods_from_text"}

\* C19: with the language model available, the time, temperature, tool and method
\* extractors never raise, for any text and either strategy; a text with a number-like
\* token (a spelled-out number such as "two") still yields a value, not an error.
C19_ExtractorsNeverRaise ==
    call \in Extractors /\ model_installed => ~result.raised

\* the functions of the parser that take the strategy flag and load the model first
LoadingCalls ==
    {"extract_time_from_text", "extract_temperature_from_text",
     "extract_methods_from_text", "extract_ingredients_from_step",
     "split_into_atomic_steps", "classify_step_type"}

StepConstructionFailed == pc = "raised" /\ atomic_steps # <<>>

\* C21: every Step parse emits carries the values computed for its atomic sentence:
\* its time is the time extractor's result (the qualitative shape included), and
\* actionable, is_prepared and info_type are the classifier's triple; building the
\* Step never fails and drops no field.
C21_StepCarriesComputedValues ==
    /\ ~StepConstructionFailed
    /\ \A i \in 1..Len(steps) :
       \A c \in {classify_step_type(steps[i].description, use_spacy, depOracle)} :
          /\ steps[i].time = extract_time_from_text(steps[i].description, use_spacy).value
          /\ steps[i].actionable = c[1]
          /\ steps[i].is_prepared = c[2]
          /\ "info_type" \in DOMAIN steps[i]
          /\ steps[i]["info_type"] = c[3]

(***************************************************************************)
(* Further properties of split_into_atomic_steps (SpecSegment).            *)
(***************************************************************************)
\* the call of split_into_atomic_steps is over
SegmentCalled == call = "split_into_atomic_steps"

\* C23: the two segmentation strategies return the same fragment sequence for every
\* direction, in particular for directions with a semicolon, " meanwhile ", " while ",
\* ", then " or ", and then ".
C23_StrategiesSegmentAlike ==
    SegmentCalled => result = split_into_atomic_steps(text, ~use_spacy)

BareConjunctions ==
    { <<"then">>, <<"and">>, <<"and", "then">>, <<"meanwhile">>, <<"while">> }

\* C24: no fragment the segmenter returns is exactly a bare conjunction (then, and,
\* and then, meanwhile, while, in any letter case), under both strategies, also when
\* the conjunction is the captured part of a ", and then " split or the last word
\* before a split point.
C24_NoBareConjunctionFragment ==
    SegmentCalled /\ ~result.raised
    => \A i \in 1..Len(result.value) : Lower(result.value[i]) \notin BareConjunctions

(***************************************************************************)
(* The default rule of classify_step_type (SpecClassify).                  *)
(***************************************************************************)
NoRuleFires == ~HasCaution /\ ~HasAdvisory /\ ~HasObservation

\* the eight deferred-use phrases of the rule as stated
StatedDeferredUsePhrases ==
    { <<"set", "aside">>, <<"reserve">>, <<"let", "stand">>, <<"let", "sit">>,
      <<"let", "rest">>, <<"refrigerate">>, <<"chill">>, <<"freeze">> }

\* the stated phrases and "let cool"
DeferredUsePhrases == StatedDeferredUsePhrases \cup { <<"let", "cool">> }

\* C25 as stated: when no caution, advisory or observation rule fires, the result is
\* actionable with info_type null, and is_prepared is true iff the text contains one of
\* "set aside", "reserve", "let stand", "let sit", "let rest", "refrigerate", "chill",
\* "freeze".
C25_DefaultRuleAsStated ==
    Classified /\ NoRuleFires
    => /\ result.value[1] = TRUE
       /\ result.value[3] = "None"
       /\ result.value[2] <=> AnyInText(Lower(text), StatedDeferredUsePhrases)

\* C25 amended: when no caution, advisory or observation rule fires, the result is
\* actionable with info_type null, and is_prepared is true iff the text contains one of
\* the eight stated phrases or "let cool".
C25_DefaultRule ==
    Classified /\ NoRuleFires
    => /\ result.value[1] = TRUE
       /\ result.value[3] = "None"
       /\ result.value[2] <=> AnyInText(Lower(text), DeferredUsePhrases)

\* a text whose only deferred-use phrase is "let cool", classified by the default rule
\* with the pattern strategy
C25_Witness ==
    /\ Classified /\ NoRuleFires /\ ~use_spacy
    /\ InText(Lower(text), <<"let", "cool">>)
    /\ ~AnyInText(Lower(text), StatedDeferredUsePhrases)
    /\ result.value = <<TRUE, TRUE, "None">>

(***************************************************************************)
(* The fall back of the language-model extractors to the regex patterns    *)
(* (SpecExtract).                                                          *)
(***************************************************************************)
\* a finished call of the time extractor with the language model
TimeWithModel == call = "extract_time_from_text" /\ use_spacy /\ ~result.raised

\* a finished call of the temperature extractor with the language model
TemperatureWithModel ==
    call = "extract_temperature_from_text" /\ use_spacy /\ ~result.raised

\* C27: with use_spacy = true, extract_time_from_text and extract_temperature_from_text
\* return the regex result whenever the matcher-based extraction yields an empty mapping
\* (so the result is empty only if the regex result is empty), and return the matcher's
\* mapping, whatever the regex patterns would give, when it is not empty.
C27_FallsBackToRegexWhenEmpty ==
    /\ TimeWithModel
       => \A m \in {extract_time_with_spacy(text).value} :
          \A r \in {extract_time_legacy(text)} :
             /\ m = EmptyDict => result.value = r
             /\ m # EmptyDict => result.value = m
             /\ result.value = EmptyDict => r = EmptyDict
    /\ TemperatureWithModel
       => \A m \in {extract_temperature_with_spacy(text)} :
          \A r \in {TempLoop(0, Lower(text))} :
             /\ m = EmptyDict => result.value = r
             /\ m # EmptyDict => result.value = m
             /\ result.value = EmptyDict => r = EmptyDict

\* the matcher finds no time in the text and the regex patterns do
C27_Witness ==
    /\ TimeWithModel
    /\ extract_time_with_spacy(text).value = EmptyDict
    /\ result.value # EmptyDict
    /\ result.value = extract_time_legacy(text)

(***************************************************************************)
(* Concurrent invocations of parse_steps_from_directions in one process    *)
(* (specification SpecConcurrent).  Every invocation has its own frame;    *)
(* spacy_utils._nlp and the dict objects are shared by the process.  The   *)
(* directions hold one sentence each, so that every direction is one       *)
(* atomic step.                                                            *)
(***************************************************************************)
Invocations == {1, 2}

\* the directions arguments of the invocations
ConcurrentRecipes ==
    { << <<"Preheat", "oven", "to", "350", "°F", ".">>, <<"Bake", "the", "bread", ".">> >>,
      << <<"Heat", "the", "pan", "to", "400", "°F", ".">>, <<"Bake", "the", "bread", ".">> >>,
      << <<"Bake", "the", "bread", ".">> >> }

\* the object the n-th execution of spacy.load returns
LoadedModel(n) == IF n = 1 THEN "en_core_web_md" ELSE "en_core_web_md#" \o ToString(n)

\* lines 384-423 for one atomic step: the Step built and the context afterwards
LoopBody(atomic_step, n, ctx, ings, spacy, seed, oracle) ==
    LET tools == extract_tools_from_text(atomic_step, seed)
        methods == extract_methods_from_text(atomic_step, spacy, seed)
        timed == extract_time_from_text(atomic_step, spacy)
        extracted == extract_temperature_from_text(atomic_step, spacy)
        temp_info == CarryForward(methods[1], extracted, ctx)
        cls == classify_step_type(atomic_step, spacy, oracle)
        step_ingredients == extract_ingredients_from_step(atomic_step, ings, spacy)
    IN [ step |-> IF timed.raised THEN timed
                  ELSE Step(n, atomic_step, step_ingredients, tools, methods[1] \o methods[2],
                            timed.value, temp_info, cls[1], cls[2], cls[3]),
         context |-> IF timed.raised THEN ctx ELSE UpdateContext(temp_info, ctx) ]

\* Every invocation has been called with directions and with context None or the dict
\* that its caller holds: the dict objects are "caller" and, for invocation i, the dict
\* ToString(i) that "context = {}" creates.
InitConcurrent ==
    /\ ParseIdle
    /\ text = <<>>
    /\ call = "idle"
    /\ result = Return(<<>>)
    /\ use_spacy \in BOOLEAN
    /\ depOracle = FALSE
    /\ frames \in [Invocations ->
                    { [ pc |-> "called", directions |-> d, context |-> a, dirIdx |-> 0,
                        steps |-> <<>>, step_number |-> 1, nlp |-> {} ]
                      : d \in ConcurrentRecipes, a \in {"None", "caller"} }]
    /\ heap = [o \in {"caller"} \cup { ToString(i) : i \in Invocations } |-> EmptyDict]
    /\ spacy_loads = 0
    /\ tracker = <<>>
    /\ dispatcher = <<>>
    /\ agent = <<>>

\* lines 374-375: "if context is None: context = {}"
EnterParse(i) ==
    /\ frames[i].pc = "called"
    /\ frames' = [frames EXCEPT ![i].pc = "loop",
                                ![i].context = IF @ = "None" THEN ToString(i) ELSE @]
    /\ UNCHANGED <<parseVars, use_spacy, depOracle, model_installed, text, call, result,
                   tracker, dispatcher, agent, _nlp, heap, spacy_loads>>

\* the next direction's first get_nlp(): "if _nlp is None" (spacy_utils.py line 20)
NlpTest(i) ==
    /\ frames[i].pc = "loop"
    /\ use_spacy
    /\ frames[i].dirIdx < Len(frames[i].directions)
    /\ frames' = [frames EXCEPT ![i].pc = IF _nlp = "None" THEN "load" ELSE "return"]
    /\ UNCHANGED <<parseVars, use_spacy, depOracle, model_installed, text, call, result,
                   tracker, dispatcher, agent, _nlp, heap, spacy_loads>>

\* "_nlp = spacy.load(...)" (spacy_utils.py line 22)
NlpLoad(i) ==
    /\ frames[i].pc = "load"
    /\ spacy_loads' = spacy_loads + 1
    /\ _nlp' = LoadedModel(spacy_loads + 1)
    /\ frames' = [frames EXCEPT ![i].pc = "return"]
    /\ UNCHANGED <<parseVars, use_spacy, depOracle, model_installed, text, call, result,
                   tracker, dispatcher, agent, heap>>

\* "return _nlp" (spacy_utils.py line 25)
NlpReturn(i) ==
    /\ frames[i].pc = "return"
    /\ frames' = [frames EXCEPT ![i].pc = "body", ![i].nlp = @ \cup {_nlp}]
    /\ UNCHANGED <<parseVars, use_spacy, depOracle, model_installed, text, call, result,
                   tracker, dispatcher, agent, _nlp, heap, spacy_loads>>

\* one pass of the loop over the directions (lines 384-423), on the dict that the
\* invocation's context refers to
ProcessDirection(i) ==
    /\ frames[i].pc = IF use_spacy THEN "body" ELSE "loop"
    /\ frames[i].dirIdx < Len(frames[i].directions)
    /\ \E f \in {frames[i]} :
       \E b \in {LoopBody(f.directions[f.dirIdx + 1], f.step_number, heap[f.context],
                          << <<"bread">>, <<"sauce">> >>, use_spacy, hashSeed, depOracle)} :
          /\ frames' = [frames EXCEPT ![i] =
                 IF b.step.raised THEN [f EXCEPT !.pc = "raised"]
                 ELSE [f EXCEPT !.pc = "loop", !.dirIdx = @ + 1,
                                !.steps = Append(@, b.step.value),
                                !.step_number = NextStepNumber(@)]]
          /\ heap' = [heap EXCEPT ![f.context] = b.context]
    /\ UNCHANGED <<parseVars, use_spacy, depOracle, model_installed, text, call, result,
                   tracker, dispatcher, agent, _nlp, spacy_loads>>

\* "return steps" (line 425)
ReturnFromParse(i) ==
    /\ frames[i].pc = "loop"
    /\ frames[i].dirIdx = Len(frames[i].directions)
    /\ frames' = [frames EXCEPT ![i].pc = "done"]
    /\ UNCHANGED <<parseVars, use_spacy, depOracle, model_installed, text, call, result,
                   tracker, dispatcher, agent, _nlp, heap, spacy_loads>>

NextConcurrent ==
    \E i \in Invocations :
       \/ EnterParse(i)
       \/ NlpTest(i)
       \/ NlpLoad(i)
       \/ NlpReturn(i)
       \/ ProcessDirection(i)
       \/ ReturnFromParse(i)

SpecConcurrent == InitConcurrent /\ [][NextConcurrent]_vars

(***************************************************************************)
(* Properties of concurrent invocations (SpecConcurrent).                  *)
(***************************************************************************)
RECURSIVE StepsAlone(_, _, _, _)
\* the steps an invocation returns for these directions when nothing else runs and its
\* context starts empty
StepsAlone(dirs, k, ctx, acc) ==
    IF k > Len(dirs) THEN acc
    ELSE LET b == LoopBody(dirs[k], k, ctx, << <<"bread">>, <<"sauce">> >>, use_spacy, hashSeed,
                         depOracle)
         IN StepsAlone(dirs, k + 1, b.context, Append(acc, b.step.value))

\* C22: the carry-forward context is scoped to a single parse call: the steps of a
\* finished invocation are those it produces on its own, whatever other invocations ran
\* before it or interleaved with it, and nothing of the context survives the call (the
\* caller's objects hold no oven temperature afterwards).
C22_ContextScopedToCall ==
    \A i \in Invocations :
       frames[i].pc = "done"
       => /\ frames[i].steps = StepsAlone(frames[i].directions, 1, EmptyDict, <<>>)
          /\ heap["caller"] = EmptyDict

\* C26: the language model is loaded at most once per process: after any interleaving
\* of get_nlp calls of concurrent parse invocations spacy.load has been executed at most
\* once and every caller received the same model object.
C26_ModelLoadedOnce ==
    /\ spacy_loads <= 1
    /\ Cardinality(UNION { frames[i].nlp : i \in Invocations }) <= 1

(***************************************************************************)
(* The dialogue managers (specification SpecChat): the rasa actions of     *)
(* rasa/actions/actions.py on the conversation's slots, and the hybrid     *)
(* agent of recipebot/hybrid/agent.py.  A step of recipe_data is modelled  *)
(* by its temperature mapping; an optional value is <<>> (None) or <<v>>.  *)
(***************************************************************************)
MaxStepNumber == 4

\* what parse_recipe(...).dict()["steps"] can be
ChatRecipes ==
    { << [temperature |-> DictSet(EmptyDict, "oven", OvenText("350", "F"))],
         [temperature |-> DictSet(EmptyDict, "heat", <<"medium", "heat">>)],
         [temperature |-> EmptyDict] >>,
      << [temperature |-> DictSet(EmptyDict, "oven", OvenText("700", "F"))],
         [temperature |-> DictSet(DictSet(EmptyDict, "oven", OvenText("30", "F")),
                                  "heat", <<"high", "heat">>)] >>,
      << [temperature |-> DictSet(EmptyDict, "oven", OvenText("600", "F"))] >>,
      << [temperature |-> DictSet(EmptyDict, "oven", OvenText("50", "C"))],
         [temperature |-> DictSet(EmptyDict, "oven", OvenText("400", "F"))] >> }

\* is_valid after the try block of _format_step (the same block fills valid_temps in
\* ActionAnswerTemperature.run): re.search(r"(\d+)") finds the first number; when it
\* finds none nothing is raised, so the except branch is never entered
is_valid(temp_value) ==
    LET nums == {i \in 1..Len(temp_value) : temp_value[i] \in Digits}
    IN /\ nums # {}
       /\ \E temp_num \in {NumVal(temp_value[CHOOSE i \in nums : \A j \in nums : i <= j])} :
             50 <= temp_num /\ temp_num <= 600

\* _format_step(step, step_num, total): the temperatures of the message
_format_step(step) ==
    [k \in {x \in DOMAIN step.temperature : is_valid(step.temperature[x])}
       |-> step.temperature[k]]

InitChat ==
    /\ ParseIdle
    /\ text = <<>>
    /\ call = "idle"
    /\ result = Return(<<>>)
    /\ use_spacy = TRUE
    /\ depOracle = FALSE
    /\ frames = <<>>
    /\ heap = <<>>
    /\ spacy_loads = 0
    /\ tracker = [recipe_data |-> EmptyDict, current_step |-> 0, total_steps |-> 0]
    /\ dispatcher = [text |-> "", temperatures |-> EmptyDict]
    /\ agent = [current_recipe |-> <<>>, current_step |-> 0]

chatFixed == <<parseVars, use_spacy, depOracle, model_installed, _nlp, text, frames, heap, spacy_loads>>

\* ActionFetchRecipe.run: parse_recipe returns a recipe, or there is no URL or
\* parse_recipe raises
ActionFetchRecipe ==
    /\ \E fetched \in {<<>>} \cup { <<r>> : r \in ChatRecipes } :
          IF fetched = <<>>
          THEN /\ dispatcher' = [text |-> "Error fetching recipe", temperatures |-> EmptyDict]
               /\ UNCHANGED tracker
          ELSE /\ dispatcher' = [text |-> "Recipe loaded", temperatures |-> EmptyDict]
               /\ tracker' = [recipe_data |-> DictSet(EmptyDict, "steps", fetched[1]),
                              current_step |-> 0, total_steps |-> Len(fetched[1])]
    /\ UNCHANGED <<chatFixed, call, result, agent>>

\* ActionShowSteps.run
ActionShowSteps ==
    /\ IF tracker.recipe_data = EmptyDict
       THEN /\ dispatcher' = [text |-> "No recipe loaded.", temperatures |-> EmptyDict]
            /\ UNCHANGED tracker
       ELSE IF tracker.recipe_data["steps"] = <<>>
       THEN /\ dispatcher' = [text |-> "No steps found in this recipe.",
                              temperatures |-> EmptyDict]
            /\ UNCHANGED tracker
       ELSE /\ dispatcher' = [text |-> "Recipe Steps", temperatures |-> EmptyDict]
            /\ tracker' = [tracker EXCEPT !.current_step = 1]
    /\ UNCHANGED <<chatFixed, call, result, agent>>

\* ActionShowCurrentStep.run
ActionShowCurrentStep ==
    /\ IF tracker.recipe_data = EmptyDict
       THEN dispatcher' = [text |-> "No recipe loaded.", temperatures |-> EmptyDict]
       ELSE \E steps_ \in {tracker.recipe_data["steps"]}, current_step \in {tracker.current_step} :
               IF steps_ = <<>> \/ current_step < 1 \/ current_step > Len(steps_)
               THEN dispatcher' = [text |-> "Invalid step number.", temperatures |-> EmptyDict]
               ELSE dispatcher' = [text |-> "Step", temperatures |->
                                                      _format_step(steps_[current_step])]
    /\ UNCHANGED <<chatFixed, call, result, agent, tracker>>

\* ActionNavigateNext.run without the test "current_step >= len(steps)"
ActionNavigateNext_past_the_end ==
    /\ IF tracker.recipe_data = EmptyDict
       THEN /\ dispatcher' = [text |-> "No recipe loaded.", temperatures |-> EmptyDict]
            /\ UNCHANGED tracker
       ELSE \E new_step \in {tracker.current_step + 1} :
               /\ dispatcher' = [text |-> "Step", temperatures |-> EmptyDict]
               /\ tracker' = [tracker EXCEPT !.current_step = new_step]
    /\ UNCHANGED <<chatFixed, call, result, agent>>

\* ActionNavigateNext.run
ActionNavigateNext ==
    /\ IF tracker.recipe_data = EmptyDict
       THEN /\ dispatcher' = [text |-> "No recipe loaded.", temperatures |-> EmptyDict]
            /\ UNCHANGED tracker
       ELSE \E steps_ \in {tracker.recipe_data["steps"]}, current_step \in {tracker.current_step} :
               IF current_step >= Len(steps_)
               THEN /\ dispatcher' = [text |-> "You've completed all steps!",
                                      temperatures |-> EmptyDict]
                    /\ UNCHANGED tracker
               ELSE \E new_step \in {current_step + 1} :
                       /\ dispatcher' = [text |-> "Step", temperatures |->
                                                              _format_step(steps_[new_step])]
                       /\ tracker' = [tracker EXCEPT !.current_step = new_step]
    /\ UNCHANGED <<chatFixed, call, result, agent>>

\* ActionNavigatePrevious.run
ActionNavigatePrevious ==
    /\ IF tracker.recipe_data = EmptyDict
       THEN /\ dispatcher' = [text |-> "No recipe loaded.", temperatures |-> EmptyDict]
            /\ UNCHANGED tracker
       ELSE \E steps_ \in {tracker.recipe_data["steps"]}, current_step \in {tracker.current_step} :
               IF current_step <= 1
               THEN /\ dispatcher' = [text |-> "You're already at the first step.",
                                      temperatures |-> EmptyDict]
                    /\ UNCHANGED tracker
               ELSE \E new_step \in {current_step - 1} :
                       /\ dispatcher' = [text |-> "Step", temperatures |->
                                                              _format_step(steps_[new_step])]
                       /\ tracker' = [tracker EXCEPT !.current_step = new_step]
    /\ UNCHANGED <<chatFixed, call, result, agent>>

\* ActionNavigateFirst.run
ActionNavigateFirst ==
    /\ IF tracker.recipe_data = EmptyDict
       THEN /\ dispatcher' = [text |-> "No recipe loaded.", temperatures |-> EmptyDict]
            /\ UNCHANGED tracker
       ELSE \E steps_ \in {tracker.recipe_data["steps"]} :
               IF steps_ = <<>>
               THEN /\ dispatcher' = [text |-> "No steps found.", temperatures |-> EmptyDict]
                    /\ UNCHANGED tracker
               ELSE /\ dispatcher' = [text |-> "Step", temperatures |->
                                                           _format_step(steps_[1])]
                    /\ tracker' = [tracker EXCEPT !.current_step = 1]
    /\ UNCHANGED <<chatFixed, call, result, agent>>

\* ActionNavigateSpecific.run; number is the step_number that the loop over the entities leaves
ActionNavigateSpecific(number) ==
    /\ IF tracker.recipe_data = EmptyDict
       THEN /\ dispatcher' = [text |-> "No recipe loaded.", temperatures |-> EmptyDict]
            /\ UNCHANGED tracker
       ELSE IF number = <<>>
       THEN /\ dispatcher' = [text |-> "Please specify which step number.",
                              temperatures |-> EmptyDict]
            /\ UNCHANGED tracker
       ELSE \E steps_ \in {tracker.recipe_data["steps"]} :
               IF number[1] < 1 \/ number[1] > Len(steps_)
               THEN /\ dispatcher' = [text |-> "Invalid step number.",
                                      temperatures |-> EmptyDict]
                    /\ UNCHANGED tracker
               ELSE /\ dispatcher' = [text |-> "Step", temperatures |->
                                                   _format_step(steps_[number[1]])]
                    /\ tracker' = [tracker EXCEPT !.current_step = number[1]]
    /\ UNCHANGED <<chatFixed, call, result, agent>>

\* ActionAnswerTemperature.run for a question that asks for no definition
ActionAnswerTemperature ==
    /\ IF tracker.recipe_data = EmptyDict \/ tracker.current_step < 1
       THEN dispatcher' = [text |-> "No active step.", temperatures |-> EmptyDict]
       ELSE \E step \in {tracker.recipe_data["steps"][tracker.current_step]} :
            \E valid_temps \in {_format_step(step)} :
               IF valid_temps = EmptyDict
               THEN dispatcher' = [text |-> "No temperature specified for this step.",
                                   temperatures |-> EmptyDict]
               ELSE dispatcher' = [text |-> "Temperature", temperatures |-> valid_temps]
    /\ UNCHANGED <<chatFixed, call, result, agent, tracker>>

\* navigate_step(ctx, action, step_number): its return value; new_step is the second
\* component of a successful one
navigate_step(current, action, number) ==
    IF action = "next" THEN Return(<<"Successfully navigated to step", current + 1>>)
    ELSE IF action = "previous"
    THEN Return(<<"Successfully navigated to step", IF current - 1 > 1 THEN current - 1 ELSE 1>>)
    ELSE IF action = "first" THEN Return(<<"Successfully navigated to step", 1>>)
    ELSE IF action = "repeat" THEN Return(<<"Successfully navigated to step", current>>)
    ELSE IF action = "goto"
    THEN IF number = <<>>
         THEN Return(<<"Please specify a step number for 'goto' action.", current>>)
         ELSE Return(<<"Successfully navigated to step",
                       IF number[1] > 1 THEN number[1] ELSE 1>>)
    ELSE Return(<<"Invalid action", current>>)

\* HybridAgent.load_recipe: the agent returns a recipe, or the call raises
load_recipe ==
    /\ \E loaded \in {<<>>} \cup { <<r>> : r \in ChatRecipes } :
          /\ call' = "load_recipe"
          /\ IF loaded = <<>>
             THEN /\ result' = Raise("ValueError")
                  /\ UNCHANGED agent
             ELSE /\ result' = Return(<<"loaded", 0>>)
                  /\ agent' = [current_recipe |-> loaded, current_step |-> 0]
    /\ UNCHANGED <<chatFixed, tracker, dispatcher>>

\* HybridAgent.ask for a question on which the agent calls the navigate_step tool once
\* and then answers or fails
ask(action, number, fails) ==
    /\ agent.current_step <= MaxStepNumber     \* the model follows the counter this far
    /\ call' = "ask"
    /\ IF agent.current_recipe = <<>>
       THEN /\ result' = Return(<<"No recipe loaded.", agent.current_step>>)
            /\ UNCHANGED agent
       ELSE \E r \in {navigate_step(agent.current_step, action, number)} :
               IF fails
               THEN /\ result' = Return(<<"Error generating response", agent.current_step>>)
                    /\ UNCHANGED agent
               ELSE /\ result' = r
                    /\ agent' = [agent EXCEPT !.current_step = r.value[2]]
    /\ UNCHANGED <<chatFixed, tracker, dispatcher>>

NextChat ==
    \/ ActionFetchRecipe
    \/ ActionShowSteps
    \/ ActionShowCurrentStep
    \/ ActionNavigateNext
    \/ ActionNavigatePrevious
    \/ ActionNavigateFirst
    \/ \E number \in {<<>>} \cup { <<n>> : n \in 0..MaxStepNumber } :
          ActionNavigateSpecific(number)
    \/ ActionAnswerTemperature
    \/ load_recipe
    \/ \E action \in {"next", "previous", "first", "repeat", "goto", "skip"},
          number \in {<<>>} \cup { <<n>> : n \in 0..MaxStepNumber },
          fails \in BOOLEAN :
          ask(action, number, fails)

SpecChat == InitChat /\ [][NextChat]_vars

(***************************************************************************)
(* Properties of the dialogue managers (SpecChat).                         *)
(***************************************************************************)
\* the last message shows a step, or answers the temperature question for one
StepShown ==
    dispatcher.text \in {"Step", "Temperature", "No temperature specified for this step."}

\* the temperature value holds a number
IsNumericReading(temp_value) == \E i \in 1..Len(temp_value) : temp_value[i] \in Digits

\* the number of a numeric reading lies in 50..600
ReadingInRange(temp_value) ==
    \E i \in 1..Len(temp_value) :
       /\ temp_value[i] \in Digits
       /\ \A j \in 1..(i - 1) : temp_value[j] \notin Digits
       /\ 50 <= NumVal(temp_value[i]) /\ NumVal(temp_value[i]) <= 600

\* C28: the temperature filter of the step display and of the temperature answer shows
\* a temperature value of the step exactly when it is a numeric reading whose number
\* lies in 50..600 or a non-numeric qualitative value such as "medium heat".
C28_TemperatureFilter ==
    StepShown
    => \A temp_info \in {tracker.recipe_data["steps"][tracker.current_step].temperature} :
       \A k \in DOMAIN temp_info :
          k \in DOMAIN dispatcher.temperatures
          <=> (ReadingInRange(temp_info[k]) \/ ~IsNumericReading(temp_info[k]))

\* the number of steps of the recipe in the slots, 0 without a recipe
NumberOfSteps(slots) ==
    IF slots.recipe_data = EmptyDict THEN 0 ELSE Len(slots.recipe_data["steps"])

\* C29: after every action 0 <= current_step <= number of steps of the loaded recipe;
\* next at the last step, previous at step 1 or 0 and a go-to with a number outside
\* 1..N leave current_step unchanged, and a successful fetch resets it to 0.
C29_CurrentStepWithinRecipe ==
    [][ /\ 0 <= tracker'.current_step
        /\ tracker'.current_step <= NumberOfSteps(tracker')
        /\ ActionNavigateNext /\ tracker.current_step >= NumberOfSteps(tracker)
           => tracker'.current_step = tracker.current_step
        /\ ActionNavigatePrevious /\ tracker.current_step <= 1
           => tracker'.current_step = tracker.current_step
        /\ \A n \in 0..MaxStepNumber :
              ActionNavigateSpecific(<<n>>) /\ (n < 1 \/ n > NumberOfSteps(tracker))
              => tracker'.current_step = tracker.current_step
        /\ ActionFetchRecipe /\ dispatcher'.text = "Recipe loaded"
           => tracker'.current_step = 0 ]_vars

\* next has been asked for at the last step of a recipe of several steps
C29_Witness ==
    /\ dispatcher.text = "You've completed all steps!"
    /\ NumberOfSteps(tracker) >= 2
    /\ tracker.current_step = NumberOfSteps(tracker)

\* C30: in the hybrid agent every successful navigate_step on a loaded recipe with N
\* steps leaves current_step within 1..N, and an invalid action or a goto without a step
\* number leaves current_step unchanged.
C30_NavigationWithinRecipe ==
    [][ \A action \in {"next", "previous", "first", "repeat", "goto", "skip"},
           number \in {<<>>} \cup { <<n>> : n \in 0..MaxStepNumber } :
           ask(action, number, FALSE) /\ agent.current_recipe # <<>>
           => IF navigate_step(agent.current_step, action, number).value[1]
                 = "Successfully navigated to step"
              THEN agent'.current_step \in 1..Len(agent.current_recipe[1])
              ELSE agent'.current_step = agent.current_step ]_vars
====
